---- MODULE Spec2Model ----
(***************************************************************************)
(* Careboks backend: the REST API (Fastify routes over a Prisma database)  *)
(* and the WatsonX integration, as a state machine.  One action per route  *)
(* handler; a handler's database calls are part of its action.             *)
(***************************************************************************)
EXTENDS Integers, Sequences, FiniteSets, TLC

(***************************************************************************)
(* Bounds of the model.                                                    *)
(***************************************************************************)
MaxCases == 1
MaxRows == 1
MaxDocs == 2
MaxViews == 1
MaxClock == 1
MaxRequests == 2
MaxGenerations == 1
MaxAiClock == 2
MaxSessions == 3
MaxRefreshes == 2
MaxApiRows == 1

(***************************************************************************)
(* Values.                                                                 *)
(***************************************************************************)
\* the accounts that hold access tokens (JWT payload "sub")
Users == {"u1", "u2"}
\* a request without a valid access JWT
NoJwt == "anonymous"
Jwts == Users \cup {NoJwt}
\* a field left out of a request body (undefined)
Absent == "__absent__"
\* a NULL timestamp column
NoTime == -1
\* a :caseId / :documentId parameter that is not a uuid
BadId == 0
\* the null a service function returns when the row is not the caller's
NoRow == 0
\* caseStatusSchema / case_status enum, in the order of the documented flow
CaseStatuses == <<"draft", "processing", "pending_approval", "approved", "completed">>
StatusSet == {CaseStatuses[i] : i \in 1..Len(CaseStatuses)}
StatusRank(s) == CHOOSE i \in 1..Len(CaseStatuses) : CaseStatuses[i] = s
\* a user row without a profiles row
NoProfile == "__none__"
\* logoutSchema: refreshToken left out
NoRefreshToken == -1
\* env.REFRESH_TOKEN_TTL_DAYS, in units of clock
RefreshTokenTtl == 1
\* one unit of clock in milliseconds (Date.now())
TickMs == 200 * 1000
\* cachedToken = null; an IAM token is modelled by the time it was issued at
\* and its expires_in
NullToken == [issuedAt |-> NoTime, expiresIn |-> 0]
\* an /ai connection that serves no request
IdleRequest ==
    [pc |-> "idle", route |-> "none", language |-> "english", attempts |-> 0,
     lastError |-> "", now |-> 0, chatCalls |-> 0]

VARIABLES
    clock,               \* current time (new Date(), NOW())
    patientCases,        \* table patient_cases, row id = index
    patientProfiles,     \* table patient_profiles (unique on case_id)
    aiAnalyses,          \* table ai_analyses
    approvals,           \* table approvals
    caseFeedback,        \* table case_feedback
    publishedDocuments,  \* table published_documents
    patientFeedback,     \* table patient_feedback
    reply,               \* the reply to the request served last
    cachedToken,         \* watsonx: the cached IAM token
    tokenExpiryMs,       \* watsonx: the time until which the cache is used
    aiRequests,          \* the /ai requests being served, by connection
    users,               \* tables users and profiles, by user id (the email)
    sessions,            \* table sessions, row id = index
    refreshes,           \* the session each /auth/refresh being served found
    clinicianContacts,   \* table clinician_contacts
    userDocuments        \* table user_documents

dbVars == <<patientCases, patientProfiles, aiAnalyses, approvals, caseFeedback,
            publishedDocuments, patientFeedback>>
aiVars == <<cachedToken, tokenExpiryMs, aiRequests>>
\* the state outside the case and document tables
authVars == <<users, sessions, refreshes>>
accountVars == <<clinicianContacts, userDocuments>>
nonDbVars == <<aiVars, authVars, accountVars>>
vars == <<clock, dbVars, reply, aiVars, authVars, accountVars>>

\* a reply without rows
NoBody == <<>>
Reply(route, code, message, body) ==
    [route |-> route, code |-> code, message |-> message, body |-> body]

\* the tables, the caches and the connections of a server that was started
InitServer ==
    /\ clock = 0
    /\ patientCases = <<>>
    /\ patientProfiles = <<>>
    /\ aiAnalyses = <<>>
    /\ approvals = <<>>
    /\ caseFeedback = <<>>
    /\ publishedDocuments = <<>>
    /\ patientFeedback = <<>>
    /\ cachedToken = NullToken
    /\ tokenExpiryMs = 0
    /\ aiRequests = [r \in 1..MaxRequests |-> IdleRequest]
    /\ users = [id \in Users |->
                [passwordHash |-> <<"hash", "secret">>,
                 profile |-> IF id = "u1" THEN "est" ELSE NoProfile]]
    /\ sessions = <<>>
    /\ refreshes = [k \in 1..MaxRefreshes |-> NoRow]
    /\ clinicianContacts = <<>>
    /\ userDocuments = <<>>

Init ==
    /\ InitServer
    /\ reply = Reply("none", 0, "", NoBody)

\* time passes
Tick ==
    /\ clock < MaxClock
    /\ clock' = clock + 1
    /\ UNCHANGED <<dbVars, reply, nonDbVars>>

\* a reply that leaves the database as it is
Answer(route, code, message, body) ==
    /\ reply' = Reply(route, code, message, body)
    /\ UNCHANGED <<clock, dbVars, nonDbVars>>

(***************************************************************************)
(* plugins/authenticate: the preHandler of every protected route.          *)
(* request.jwtVerify() throws without a valid access JWT; the hook then    *)
(* sends 401 and Fastify does not run the route handler.  Access JWTs are  *)
(* signed for registered users only.                                       *)
(***************************************************************************)
\* mutant: the hook lets every request through
AuthenticateAnyone(jwt) == TRUE

Authenticate(jwt) == jwt \in DOMAIN users

Unauthorized(route) == Answer(route, 401, "Unauthorized", NoBody)

(***************************************************************************)
(* modules/cases: schemas                                                  *)
(***************************************************************************)
CaseParams == (1..MaxCases) \cup {BadId}
\* caseParamsSchema: caseId is a uuid
CaseParamsOk(caseId) == caseId # BadId

CreateCaseBodies == [technicalNote : {"", "note"}]
CreateCaseSchemaOk(body) == body.technicalNote # ""

UpdateCaseBodies ==
    [technicalNote : {Absent}, uploadedFileNames : {Absent},
     status : {Absent, "archived"} \cup StatusSet]
    \cup [technicalNote : {"edited"}, uploadedFileNames : {"f.pdf"}, status : {Absent}]
UpdateCaseFieldsOk(body) == body.status \in {Absent} \cup StatusSet
\* mutant: the refinement is left out
UpdateCaseRefineSkipped(body) == TRUE

UpdateCaseRefineOk(body) ==
    \/ body.technicalNote # Absent
    \/ body.uploadedFileNames # Absent
    \/ body.status # Absent

SavePatientProfileBodies == [language : {Absent, "estonian"}]
SavePatientProfileSchemaOk(body) == body.language # Absent

SaveAnalysisBodies == [aiDraftText : {Absent, "draft"}]
SaveAnalysisSchemaOk(body) == body.aiDraftText # Absent

SaveApprovalBodies == [approvedText : {"", "approved text"}]
SaveApprovalSchemaOk(body) == body.approvedText # ""

\* a value of another type than the schema's z.string()
NotAString == "__number__"
SaveCaseFeedbackBodies ==
    [selectedOptions : {Absent, "clear"}, additionalComments : {Absent, NotAString}]
SaveCaseFeedbackSchemaOk(body) == body.additionalComments # NotAString

\* ?limit= left out of the query
NoLimit == -1
HistoryLimits == {NoLimit, 0, 1}
\* queryCaseHistorySchema: a positive integer of at most 100, 10 when left out
DefaultHistoryLimit == 10
MaxHistoryLimit == 100
QueryCaseHistorySchemaOk(limit) == limit = NoLimit \/ (limit > 0 /\ limit <= MaxHistoryLimit)
HistoryLimit(limit) == IF limit = NoLimit THEN DefaultHistoryLimit ELSE limit

(***************************************************************************)
(* modules/cases/cases.service and cases.routes                            *)
(***************************************************************************)
\* mutant: the lookup leaves out createdBy
AssertCaseOwnershipOfAnyUser(caseId, userId) ==
    IF caseId \in DOMAIN patientCases THEN caseId ELSE NoRow

AssertCaseOwnership(caseId, userId) ==
    IF caseId \in DOMAIN patientCases /\ patientCases[caseId].createdBy = userId
    THEN caseId
    ELSE NoRow

\* POST /cases
CreateCase(jwt, body) ==
    LET route == "POST /cases" IN
    IF ~Authenticate(jwt) THEN Unauthorized(route)
    ELSE IF ~CreateCaseSchemaOk(body) THEN Answer(route, 400, "Invalid input", NoBody)
    ELSE /\ Len(patientCases) < MaxCases
         /\ patientCases' = Append(patientCases,
                [createdBy |-> jwt,
                 technicalNote |-> body.technicalNote,
                 uploadedFileNames |-> "",
                 status |-> "draft",
                 completedAt |-> NoTime])
         /\ reply' = Reply(route, 201, "", <<Len(patientCases) + 1>>)
         /\ UNCHANGED <<clock, nonDbVars, patientProfiles, aiAnalyses, approvals, caseFeedback,
                        publishedDocuments, patientFeedback>>

UpdatedCase(row, body) ==
    [row EXCEPT
        !.technicalNote =
            IF body.technicalNote # Absent THEN body.technicalNote ELSE @,
        !.uploadedFileNames =
            IF body.uploadedFileNames # Absent THEN body.uploadedFileNames ELSE @,
        !.status = IF body.status # Absent THEN body.status ELSE @,
        !.completedAt =
            IF body.status = Absent THEN @
            ELSE IF body.status = "completed" THEN clock ELSE NoTime]

\* PATCH /cases/:caseId
UpdateCase(jwt, caseId, body) ==
    LET route == "PATCH /cases/:caseId" IN
    IF ~Authenticate(jwt) THEN Unauthorized(route)
    ELSE IF ~CaseParamsOk(caseId) THEN Answer(route, 400, "Invalid input", NoBody)
    ELSE IF ~UpdateCaseFieldsOk(body) THEN Answer(route, 400, "Invalid input", NoBody)
    ELSE IF ~UpdateCaseRefineOk(body)
    THEN Answer(route, 400, "At least one field is required for update", NoBody)
    ELSE IF AssertCaseOwnership(caseId, jwt) = NoRow
    THEN Answer(route, 404, "Case not found", NoBody)
    ELSE /\ patientCases' =
                [patientCases EXCEPT ![caseId] = UpdatedCase(patientCases[caseId], body)]
         /\ reply' = Reply(route, 200, "", <<caseId>>)
         /\ UNCHANGED <<clock, nonDbVars, patientProfiles, aiAnalyses, approvals, caseFeedback,
                        publishedDocuments, patientFeedback>>

\* prisma.patientProfile.upsert on the unique case_id
UpsertProfile(caseId, body) ==
    IF \E i \in DOMAIN patientProfiles : patientProfiles[i].caseId = caseId
    THEN [i \in DOMAIN patientProfiles |->
            IF patientProfiles[i].caseId = caseId
            THEN [patientProfiles[i] EXCEPT !.language = body.language]
            ELSE patientProfiles[i]]
    ELSE Append(patientProfiles, [caseId |-> caseId, language |-> body.language])

\* POST /cases/:caseId/profile
SavePatientProfile(jwt, caseId, body) ==
    LET route == "POST /cases/:caseId/profile" IN
    IF ~Authenticate(jwt) THEN Unauthorized(route)
    ELSE IF ~CaseParamsOk(caseId) THEN Answer(route, 400, "Invalid input", NoBody)
    ELSE IF ~SavePatientProfileSchemaOk(body)
    THEN Answer(route, 400, "Invalid input", NoBody)
    ELSE IF AssertCaseOwnership(caseId, jwt) = NoRow
    THEN Answer(route, 404, "Case not found", NoBody)
    ELSE /\ Len(UpsertProfile(caseId, body)) <= MaxRows
         /\ patientProfiles' = UpsertProfile(caseId, body)
         /\ reply' = Reply(route, 200, "", <<caseId>>)
         /\ UNCHANGED <<clock, nonDbVars, patientCases, aiAnalyses, approvals, caseFeedback,
                        publishedDocuments, patientFeedback>>

\* POST /cases/:caseId/analysis
SaveAiAnalysis(jwt, caseId, body) ==
    LET route == "POST /cases/:caseId/analysis" IN
    IF ~Authenticate(jwt) THEN Unauthorized(route)
    ELSE IF ~CaseParamsOk(caseId) THEN Answer(route, 400, "Invalid input", NoBody)
    ELSE IF ~SaveAnalysisSchemaOk(body) THEN Answer(route, 400, "Invalid input", NoBody)
    ELSE IF AssertCaseOwnership(caseId, jwt) = NoRow
    THEN Answer(route, 404, "Case not found", NoBody)
    ELSE /\ Len(aiAnalyses) < MaxRows
         /\ aiAnalyses' = Append(aiAnalyses,
                [caseId |-> caseId, aiDraftText |-> body.aiDraftText])
         /\ reply' = Reply(route, 200, "", <<Len(aiAnalyses) + 1>>)
         /\ UNCHANGED <<clock, nonDbVars, patientCases, patientProfiles, approvals, caseFeedback,
                        publishedDocuments, patientFeedback>>

\* mutant: approved_at is never set
ApprovalWithoutTimestamp(userId, caseId, body) ==
    [caseId |-> caseId,
     approvedBy |-> userId,
     approvedText |-> body.approvedText,
     approvedAt |-> NoTime]

\* saveApprovalForUser: the row prisma.approval.create inserts
NewApproval(userId, caseId, body) ==
    [caseId |-> caseId,
     approvedBy |-> userId,
     approvedText |-> body.approvedText,
     approvedAt |-> clock]

\* POST /cases/:caseId/approval
SaveApproval(jwt, caseId, body) ==
    LET route == "POST /cases/:caseId/approval" IN
    IF ~Authenticate(jwt) THEN Unauthorized(route)
    ELSE IF ~CaseParamsOk(caseId) THEN Answer(route, 400, "Invalid input", NoBody)
    ELSE IF ~SaveApprovalSchemaOk(body) THEN Answer(route, 400, "Invalid input", NoBody)
    ELSE IF AssertCaseOwnership(caseId, jwt) = NoRow
    THEN Answer(route, 404, "Case not found", NoBody)
    ELSE /\ Len(approvals) < MaxRows
         /\ approvals' = Append(approvals, NewApproval(jwt, caseId, body))
         /\ reply' = Reply(route, 200, "", <<Len(approvals) + 1>>)
         /\ UNCHANGED <<clock, nonDbVars, patientCases, patientProfiles, aiAnalyses, caseFeedback,
                        publishedDocuments, patientFeedback>>

\* POST /cases/:caseId/feedback
SaveCaseFeedback(jwt, caseId, body) ==
    LET route == "POST /cases/:caseId/feedback" IN
    IF ~Authenticate(jwt) THEN Unauthorized(route)
    ELSE IF ~CaseParamsOk(caseId) THEN Answer(route, 400, "Invalid input", NoBody)
    ELSE IF ~SaveCaseFeedbackSchemaOk(body)
    THEN Answer(route, 400, "Invalid input", NoBody)
    ELSE IF AssertCaseOwnership(caseId, jwt) = NoRow
    THEN Answer(route, 404, "Case not found", NoBody)
    ELSE /\ Len(caseFeedback) < MaxRows
         /\ caseFeedback' = Append(caseFeedback,
                [caseId |-> caseId, submittedBy |-> jwt])
         /\ reply' = Reply(route, 201, "", <<Len(caseFeedback) + 1>>)
         /\ UNCHANGED <<clock, nonDbVars, patientCases, patientProfiles, aiAnalyses, approvals,
                        publishedDocuments, patientFeedback>>

\* loadCaseForUser: prisma.patientCase.findFirst({ id, createdBy })
LoadCaseForUser(userId, caseId) ==
    IF caseId \in DOMAIN patientCases /\ patientCases[caseId].createdBy = userId
    THEN caseId
    ELSE NoRow

\* GET /cases/:caseId
GetCase(jwt, caseId) ==
    LET route == "GET /cases/:caseId" IN
    IF ~Authenticate(jwt) THEN Unauthorized(route)
    ELSE IF ~CaseParamsOk(caseId) THEN Answer(route, 400, "Invalid input", NoBody)
    ELSE IF LoadCaseForUser(jwt, caseId) = NoRow
    THEN Answer(route, 404, "Case not found", NoBody)
    ELSE Answer(route, 200, "", <<caseId>>)

Take(seq, n) == SubSeq(seq, 1, IF n < Len(seq) THEN n ELSE Len(seq))

\* the ids among 1..n of the cases created by userId, newest (highest id) first
RECURSIVE CasesCreatedBy(_, _)
CasesCreatedBy(userId, n) ==
    IF n = 0 THEN <<>>
    ELSE IF patientCases[n].createdBy = userId
    THEN <<n>> \o CasesCreatedBy(userId, n - 1)
    ELSE CasesCreatedBy(userId, n - 1)

\* getCaseHistoryForUser: where createdBy, orderBy createdAt desc, take limit
GetCaseHistoryForUser(userId, limit) ==
    Take(CasesCreatedBy(userId, Len(patientCases)), limit)

\* GET /cases
ListCases(jwt, limit) ==
    LET route == "GET /cases" IN
    IF ~Authenticate(jwt) THEN Unauthorized(route)
    ELSE IF ~QueryCaseHistorySchemaOk(limit)
    THEN Answer(route, 400, "Invalid input", NoBody)
    ELSE Answer(route, 200, "", GetCaseHistoryForUser(jwt, HistoryLimit(limit)))

(***************************************************************************)
(* modules/documents: documents.service, documents.routes, public.routes   *)
(***************************************************************************)
\* the access tokens generateAccessToken can draw
Tokens == 1..MaxDocs
\* createUniqueAccessToken gave up after five draws that were all in use
NoToken == 0
DocParams == (1..MaxDocs) \cup {BadId}
\* documentParamsSchema: documentId is a uuid
DocParamsOk(documentId) == documentId # BadId

PublishDocumentBodies ==
    [caseId : CaseParams, clinicianName : {"", "Dr. Tamm"},
     expiresAt : {NoTime} \cup (1..MaxClock)]
PublishDocumentSchemaOk(body) == CaseParamsOk(body.caseId) /\ body.clinicianName # ""

SubmitPatientFeedbackBodies ==
    [caseId : CaseParams, publishedDocumentId : DocParams]
SubmitPatientFeedbackSchemaOk(body) ==
    CaseParamsOk(body.caseId) /\ DocParamsOk(body.publishedDocumentId)

UsedTokens == {publishedDocuments[i].accessToken : i \in DOMAIN publishedDocuments}

\* What createUniqueAccessToken can return: a drawn token no row holds, or,
\* when five draws in a row can hit tokens in use, the thrown error.
CreateUniqueAccessToken ==
    (Tokens \ UsedTokens) \cup (IF UsedTokens # {} THEN {NoToken} ELSE {})

\* publishDocumentForUser: prisma.patientCase.findFirst({ id, createdBy })
OwnedCase(userId, caseId) ==
    IF caseId \in DOMAIN patientCases /\ patientCases[caseId].createdBy = userId
    THEN caseId
    ELSE NoRow

\* POST /documents
PublishDocument(jwt, body, token) ==
    LET route == "POST /documents" IN
    IF ~Authenticate(jwt) THEN Unauthorized(route)
    ELSE IF ~PublishDocumentSchemaOk(body)
    THEN Answer(route, 400, "Invalid input", NoBody)
    ELSE IF OwnedCase(jwt, body.caseId) = NoRow
    THEN Answer(route, 404, "Case not found", NoBody)
    ELSE /\ token \in CreateUniqueAccessToken
         /\ IF token = NoToken
            THEN Answer(route, 500, "Unable to generate unique access token", NoBody)
            ELSE /\ Len(publishedDocuments) < MaxDocs
                 /\ publishedDocuments' = Append(publishedDocuments,
                        [caseId |-> body.caseId,
                         createdBy |-> jwt,
                         accessToken |-> token,
                         expiresAt |-> body.expiresAt,
                         viewCount |-> 0,
                         isActive |-> TRUE])
                 /\ reply' = Reply(route, 201, "", <<Len(publishedDocuments) + 1>>)
                 /\ UNCHANGED <<clock, nonDbVars, patientCases, patientProfiles, aiAnalyses,
                                approvals, caseFeedback, patientFeedback>>

\* the ids among 1..n of the active documents of the case that userId created,
\* newest first
RECURSIVE ActiveDocumentsOf(_, _, _)
ActiveDocumentsOf(userId, caseId, n) ==
    IF n = 0 THEN <<>>
    ELSE IF /\ publishedDocuments[n].caseId = caseId
            /\ publishedDocuments[n].createdBy = userId
            /\ publishedDocuments[n].isActive
    THEN <<n>> \o ActiveDocumentsOf(userId, caseId, n - 1)
    ELSE ActiveDocumentsOf(userId, caseId, n - 1)

\* getLatestActiveDocumentForCase
GetLatestActiveDocumentForCase(userId, caseId) ==
    Take(ActiveDocumentsOf(userId, caseId, Len(publishedDocuments)), 1)

\* GET /documents/case/:caseId
GetDocumentForCase(jwt, caseId) ==
    LET route == "GET /documents/case/:caseId" IN
    IF ~Authenticate(jwt) THEN Unauthorized(route)
    ELSE IF ~CaseParamsOk(caseId) THEN Answer(route, 400, "Invalid input", NoBody)
    ELSE IF GetLatestActiveDocumentForCase(jwt, caseId) = <<>>
    THEN Answer(route, 404, "No active document found", NoBody)
    ELSE Answer(route, 200, "", GetLatestActiveDocumentForCase(jwt, caseId))

\* deactivateDocumentForUser: prisma.publishedDocument.findFirst({ id, createdBy })
ExistingRecord(userId, documentId) ==
    IF /\ documentId \in DOMAIN publishedDocuments
       /\ publishedDocuments[documentId].createdBy = userId
    THEN documentId
    ELSE NoRow

\* deactivateDocumentForUser: the update's data
DeactivatedDocument(row) == [row EXCEPT !.isActive = FALSE]

\* PATCH /documents/:documentId/deactivate
DeactivateDocument(jwt, documentId) ==
    LET route == "PATCH /documents/:documentId/deactivate" IN
    IF ~Authenticate(jwt) THEN Unauthorized(route)
    ELSE IF ~DocParamsOk(documentId) THEN Answer(route, 400, "Invalid input", NoBody)
    ELSE IF ExistingRecord(jwt, documentId) = NoRow
    THEN Answer(route, 404, "Document not found", NoBody)
    ELSE /\ publishedDocuments' =
                [publishedDocuments EXCEPT
                    ![documentId] = DeactivatedDocument(publishedDocuments[documentId])]
         /\ reply' = Reply(route, 200, "", <<documentId>>)
         /\ UNCHANGED <<clock, nonDbVars, patientCases, patientProfiles, aiAnalyses, approvals,
                        caseFeedback, patientFeedback>>

\* mutant: the lookup leaves out isActive
IsReadableThoughInactive(row, accessToken, now) ==
    /\ row.accessToken = accessToken
    /\ (row.expiresAt = NoTime \/ row.expiresAt > now)

\* getPublicDocumentByToken: the where clause of its findFirst
IsPubliclyReadable(row, accessToken, now) ==
    /\ row.accessToken = accessToken
    /\ row.isActive
    /\ (row.expiresAt = NoTime \/ row.expiresAt > now)

\* getPublicDocumentByToken: the record found, NoRow when there is none
ActiveRecord(accessToken) ==
    LET found == {i \in DOMAIN publishedDocuments :
                    IsPubliclyReadable(publishedDocuments[i], accessToken, clock)}
    IN IF found = {} THEN NoRow ELSE CHOOSE i \in found : \A j \in found : i <= j

\* GET /public/documents/:token (no preHandler)
GetPublicDocument(token) ==
    LET route == "GET /public/documents/:token" IN
    IF ActiveRecord(token) = NoRow
    THEN Answer(route, 404, "Document not found", NoBody)
    ELSE /\ publishedDocuments[ActiveRecord(token)].viewCount < MaxViews
         /\ publishedDocuments' =
                [publishedDocuments EXCEPT ![ActiveRecord(token)].viewCount = @ + 1]
         /\ reply' = Reply(route, 200, "", <<ActiveRecord(token)>>)
         /\ UNCHANGED <<clock, nonDbVars, patientCases, patientProfiles, aiAnalyses, approvals,
                        caseFeedback, patientFeedback>>

\* submitPatientFeedback: the error it returns, "" when it creates the row
SubmitPatientFeedbackError(body) ==
    IF body.publishedDocumentId \notin DOMAIN publishedDocuments
    THEN "Published document not found"
    ELSE IF publishedDocuments[body.publishedDocumentId].caseId # body.caseId
    THEN "Document and case mismatch"
    ELSE IF ~publishedDocuments[body.publishedDocumentId].isActive
    THEN "Document is inactive"
    ELSE IF /\ publishedDocuments[body.publishedDocumentId].expiresAt # NoTime
            /\ publishedDocuments[body.publishedDocumentId].expiresAt <= clock
    THEN "Document is expired"
    ELSE ""

\* POST /public/patient-feedback (no preHandler)
SubmitPatientFeedback(body) ==
    LET route == "POST /public/patient-feedback" IN
    IF ~SubmitPatientFeedbackSchemaOk(body)
    THEN Answer(route, 400, "Invalid input", NoBody)
    ELSE IF SubmitPatientFeedbackError(body) # ""
    THEN Answer(route, 400, SubmitPatientFeedbackError(body), NoBody)
    ELSE /\ Len(patientFeedback) < MaxRows
         /\ patientFeedback' = Append(patientFeedback,
                [caseId |-> body.caseId,
                 publishedDocumentId |-> body.publishedDocumentId])
         /\ reply' = Reply(route, 201, "", <<Len(patientFeedback) + 1>>)
         /\ UNCHANGED <<clock, nonDbVars, patientCases, patientProfiles, aiAnalyses, approvals,
                        caseFeedback, publishedDocuments>>

(***************************************************************************)
(* modules/ai/validation: validateDocument.  A section's text is its       *)
(* trimmed length and the words of interest it contains.                   *)
(***************************************************************************)
MIN_SECTION_LENGTH == 50

\* requiredSections, by number
Sections == 1..7

Text(length, words) == [kind |-> "text", length |-> length, words |-> words]
\* a section that is missing or an empty string
NoText == Text(0, {})
\* a section whose whole content is a placeholder
PlaceholderKinds == {"n/a", "not applicable", "none"}
Placeholder(content) ==
    [kind |-> content,
     length |-> CASE content = "n/a" -> 3 [] content = "none" -> 4 [] OTHER -> 14,
     words |-> {}]
\* a section whose JSON value is null
NullValue == [kind |-> "null", length |-> 0, words |-> {}]

MedicationWords ==
    {"medication", "medicine", "drug", "tablet", "pill", "mg", "dose",
     "no medication", "not prescribed", "your doctor will provide"}
EmergencyWords == {"112", "emergency", "ambulance", "immediate"}
ContactWords ==
    {"phone", "email", "contact", "appointment", "clinic", "hospital", "doctor",
     "your care team will provide"}
UncertaintyPhrases ==
    <<"i don't know", "i'm not sure", "unclear from notes",
      "consult doctor for diagnosis", "cannot determine", "information not available">>
\* a dosage of four digits or more, which also contains "mg"
SuspiciousDosage == "5000 mg"
\* a dosage in grams at the end of a word
SuspiciousGrams == "5 g"
\* a character outside ASCII
NonAscii == "non-ascii"

ValidationError(error, at) == [error |-> error, at |-> at]

\* the first loop: missing and short sections
RECURSIVE SectionErrors(_, _)
SectionErrors(doc, section) ==
    IF section > 7 THEN <<>>
    ELSE LET content == doc[section]
             found ==
                IF content.length = 0
                THEN <<ValidationError("Missing section", section)>>
                ELSE IF content.length < MIN_SECTION_LENGTH
                THEN <<ValidationError("Section too short", section)>>
                ELSE <<>>
         IN found \o SectionErrors(doc, section + 1)

\* allContent.includes(phrase)
Includes(doc, phrase) == \E section \in Sections : phrase \in doc[section].words

\* mutant: uncertainty language is not looked for
UncertaintyIgnored(doc, i) == <<>>

RECURSIVE UncertaintyErrors(_, _)
UncertaintyErrors(doc, i) ==
    IF i > Len(UncertaintyPhrases) THEN <<>>
    ELSE (IF Includes(doc, UncertaintyPhrases[i])
          THEN <<ValidationError("Improper uncertainty language detected", i)>>
          ELSE <<>>) \o UncertaintyErrors(doc, i + 1)

RECURSIVE PlaceholderErrors(_, _)
PlaceholderErrors(doc, section) ==
    IF section > 7 THEN <<>>
    ELSE (IF doc[section].kind \in PlaceholderKinds
          THEN <<ValidationError("Section contains invalid placeholder content", section)>>
          ELSE <<>>) \o PlaceholderErrors(doc, section + 1)

\* content.trim and value.toLowerCase throw on a value that is no string
ValidateDocumentThrows(doc) == \E section \in Sections : doc[section].kind = "null"

ValidateDocument(doc, language) ==
    LET medicationsSection == doc[5]
        hasMedications ==
            \/ medicationsSection.words \cap MedicationWords # {}
            \/ SuspiciousDosage \in medicationsSection.words
        hasEmergencyInfo == doc[6].words \cap EmergencyWords # {}
        hasContactInfo == doc[7].words \cap ContactWords # {}
        errors ==
            SectionErrors(doc, 1)
            \o (IF ~hasEmergencyInfo
                THEN <<ValidationError(
                        "Warning signs section must include emergency number 112", 6)>>
                ELSE <<>>)
            \o UncertaintyErrors(doc, 1)
            \o PlaceholderErrors(doc, 1)
            \o (IF language # "english" /\ ~Includes(doc, NonAscii)
                THEN <<ValidationError(
                        "Language set but output appears to be in English", 0)>>
                ELSE <<>>)
        warnings ==
            (IF ~hasMedications /\ medicationsSection.length > 0
             THEN <<"Medications section may be incomplete">> ELSE <<>>)
            \o (IF ~hasContactInfo
                THEN <<"Contacts section may be incomplete">> ELSE <<>>)
            \o (IF SuspiciousDosage \in medicationsSection.words
                THEN <<"Potentially suspicious medication dosage detected">>
                ELSE <<>>)
            \o (IF SuspiciousGrams \in medicationsSection.words
                THEN <<"Potentially suspicious medication dosage detected">>
                ELSE <<>>)
    IN [passed |-> Len(errors) = 0, errors |-> errors, warnings |-> warnings]

\* a document that passes for an English reader
GoodDocument ==
    [section \in Sections |->
        Text(MIN_SECTION_LENGTH,
             CASE section = 5 -> {"medication"}
               [] section = 6 -> {"112"}
               [] section = 7 -> {"phone"}
               [] OTHER -> {})]

\* the documents WatsonX answers with
Documents ==
    {GoodDocument,
     [GoodDocument EXCEPT ![1] = Text(MIN_SECTION_LENGTH, {NonAscii})],
     [GoodDocument EXCEPT ![2] = Text(MIN_SECTION_LENGTH - 1, {})],
     [GoodDocument EXCEPT ![4] = NullValue],
     [GoodDocument EXCEPT ![7] = Text(MIN_SECTION_LENGTH, {})]}


\* the contents a section is given when validateDocument is called directly
SectionContents ==
    {NoText, NullValue, Text(MIN_SECTION_LENGTH - 1, {"112"}), Text(MIN_SECTION_LENGTH, {}),
     Text(MIN_SECTION_LENGTH, {NonAscii}), Text(MIN_SECTION_LENGTH, {SuspiciousDosage}),
     Text(MIN_SECTION_LENGTH, {SuspiciousGrams})}
    \cup {Placeholder(content) : content \in PlaceholderKinds}
    \cup {Text(MIN_SECTION_LENGTH, {word}) : word \in EmergencyWords}
    \cup {Text(MIN_SECTION_LENGTH, {UncertaintyPhrases[i]}) : i \in DOMAIN UncertaintyPhrases}

\* documents that differ from GoodDocument in at most two sections
ValidatedDocuments ==
    UNION {{[GoodDocument EXCEPT ![first] = one, ![second] = other] :
                first \in Sections, one \in SectionContents,
                other \in SectionContents \cup {GoodDocument[second]}} :
           second \in {5, 6}}
ValidatedLanguages == {"english", "estonian", "russian"}

\* a call of validateDocument and what it came to
Call(doc, language, outcome, result) ==
    Reply("validateDocument", 0, outcome,
          [document |-> doc, language |-> language, result |-> result])
NoResult == [passed |-> FALSE, errors |-> <<>>, warnings |-> <<>>]

\* validateDocument is about to be called
InitValidate ==
    /\ InitServer
    /\ reply \in {Call(doc, language, "called", NoResult) :
                    doc \in ValidatedDocuments, language \in ValidatedLanguages}

\* validateDocument returns or throws
Validate ==
    /\ reply.route = "validateDocument"
    /\ reply.message = "called"
    /\ LET doc == reply.body.document
           language == reply.body.language
       IN reply' = IF ValidateDocumentThrows(doc)
                   THEN Call(doc, language, "TypeError", NoResult)
                   ELSE Call(doc, language, "returned", ValidateDocument(doc, language))
    /\ UNCHANGED <<clock, dbVars, nonDbVars>>

(***************************************************************************)
(* modules/ai/watsonx: getIAMToken and callWatsonx.  A call waits for the  *)
(* IAM endpoint (pc "iam") unless the cache is fresh, then for the chat    *)
(* endpoint (pc "chat"); other requests are served while it waits.         *)
(***************************************************************************)
NowMs == clock * TickMs

\* the responses of the IAM endpoint; expires_in 0 stands for a missing one
ExpiresIn == {0, 200, 700}
IamResponses ==
    [ok : {FALSE}, accessToken : {FALSE}, expiresIn : {0}]
    \cup [ok : {TRUE}, accessToken : {FALSE}, expiresIn : {700}]
    \cup [ok : {TRUE}, accessToken : {TRUE}, expiresIn : ExpiresIn]

\* the responses of the chat endpoint
NoDocument == [section \in Sections |-> NoText]
WatsonxResponses ==
    [status : {401, 403, 500}, content : {"empty"}, document : {NoDocument}]
    \cup [status : {200}, content : {"empty", "not json"}, document : {NoDocument}]
    \cup [status : {200}, content : {"json"}, document : Documents]

\* the time at which the token stops being its own real expiry
RealExpiryMs(token) == token.issuedAt * TickMs + token.expiresIn * 1000

\* getIAMToken: the cached token is returned
CacheIsFresh(token, expiryMs, now) == token # NullToken /\ expiryMs > now

\* mutant: the safety margin is left out
TokenExpiryWithoutMargin(now, expiresIn) == now + expiresIn * 1000

\* getIAMToken: the expiry stored with a new token
TokenExpiry(now, expiresIn) == now + (expiresIn - 300) * 1000

\* callWatsonx up to the fetch it waits for, given the cache it finds
BeginCall(request, token, expiryMs) ==
    IF CacheIsFresh(token, expiryMs, NowMs)
    THEN [request EXCEPT !.pc = "chat", !.now = NowMs, !.chatCalls = @ + 1]
    ELSE [request EXCEPT !.pc = "iam", !.now = NowMs]

(***************************************************************************)
(* modules/ai/ai.routes                                                    *)
(***************************************************************************)
MAX_TECHNICAL_NOTE_LENGTH == 50000
\* mutant: one retry more
TwoRetries == 1 + 1
MAX_RETRIES == 1

GenerateRoute == "POST /ai/generate-patient-document-v2"
ExtractRoute == "POST /ai/extract-text-from-document"
RegenerateRoute == "POST /ai/regenerate-section"

\* request bodies: the length of technicalNote, whether patientData is an
\* object, and its language
GenerateBodies ==
    [technicalNote : {1}, patientData : {"object"},
     language : {Absent, "english", "estonian"}]
    \cup [technicalNote : {0, MAX_TECHNICAL_NOTE_LENGTH + 1}, patientData : {"object"},
          language : {Absent}]
    \cup [technicalNote : {1}, patientData : {"undefined"}, language : {Absent}]
GenerateSchemaOk(body) == body.technicalNote >= 1
RegenerateBodies == [technicalNote : {0, 1}]
RegenerateSchemaOk(body) == body.technicalNote >= 1
ExtractBodies == [fileData : {"", "image"}]
ExtractSchemaOk(body) == body.fileData # ""

\* mutant: the language of the request is ignored
AlwaysEnglish(body) == "english"

\* patientData.language || "english"
PatientLanguage(body) == IF body.language = Absent THEN "english" ELSE body.language

\* what a step of a handler leaves behind: the request, and the reply if one
\* was sent
Finish(route, code, message, body) ==
    [request |-> IdleRequest, replied |-> TRUE, reply |-> Reply(route, code, message, body)]
Pending(request) ==
    [request |-> request, replied |-> FALSE, reply |-> Reply("none", 0, "", NoBody)]

GenerateBody(document, validation) ==
    [document |-> document,
     validationErrors |-> validation.errors,
     validationWarnings |-> validation.warnings]

\* generate: the while loop from its condition, with the cache it finds
Loop(request, token, expiryMs) ==
    IF request.attempts <= MAX_RETRIES
    THEN Pending(BeginCall([request EXCEPT !.attempts = @ + 1], token, expiryMs))
    ELSE Finish(GenerateRoute, 500, "Unexpected generation flow exit", NoBody)

\* mutant: the catch block never replies
CaughtWithoutReturn(request, message, token, expiryMs) ==
    Loop([request EXCEPT !.lastError = message], token, expiryMs)

\* generate: the catch block
Caught(request, message, token, expiryMs) ==
    IF request.attempts > MAX_RETRIES
    THEN Finish(GenerateRoute, 500, message, NoBody)
    ELSE Loop([request EXCEPT !.lastError = message], token, expiryMs)

\* generate: the try block after callWatsonx has returned
Generated(request, response, token, expiryMs) ==
    IF response.content = "empty"
    THEN Caught(request, "No content received from AI", token, expiryMs)
    ELSE IF response.content = "not json"
    THEN Caught(request, "SyntaxError", token, expiryMs)
    ELSE IF ValidateDocumentThrows(response.document)
    THEN Caught(request, "TypeError", token, expiryMs)
    ELSE LET validation == ValidateDocument(response.document, request.language) IN
         IF ~validation.passed
         THEN IF request.attempts > MAX_RETRIES
              THEN Finish(GenerateRoute, 500,
                          "AI generation incomplete after retries. Please regenerate.",
                          GenerateBody(NoDocument, validation))
              ELSE Loop([request EXCEPT !.lastError = "VALIDATION ERRORS"],
                        token, expiryMs)
         ELSE Finish(GenerateRoute, 200, "", GenerateBody(response.document, validation))

\* the caller of callWatsonx after it threw
Thrown(request, message, token, expiryMs) ==
    IF request.route = GenerateRoute
    THEN Caught(request, message, token, expiryMs)
    ELSE Finish(request.route, 500, message, NoBody)

\* the caller of callWatsonx after it returned
Returned(request, response, token, expiryMs) ==
    IF request.route = GenerateRoute
    THEN Generated(request, response, token, expiryMs)
    ELSE IF response.content = "empty"
    THEN IF request.route = ExtractRoute
         THEN Finish(ExtractRoute, 400, "No text could be extracted from the document",
                     NoBody)
         ELSE Finish(RegenerateRoute, 500, "No content received from AI", NoBody)
    ELSE Finish(request.route, 200, "", NoBody)

\* a step of the request on connection r ends as outcome says
Serve(r, outcome) ==
    /\ aiRequests' = [aiRequests EXCEPT ![r] = outcome.request]
    /\ reply' = IF outcome.replied THEN outcome.reply ELSE reply
    /\ UNCHANGED <<clock, dbVars, authVars, accountVars>>

\* POST /ai/generate-patient-document-v2, up to the first fetch it waits for
GeneratePatientDocument(jwt, r, body) ==
    /\ aiRequests[r].pc = "idle"
    /\ IF ~Authenticate(jwt) THEN Unauthorized(GenerateRoute)
       ELSE IF ~GenerateSchemaOk(body)
       THEN Answer(GenerateRoute, 400, "Invalid input", NoBody)
       ELSE IF body.technicalNote > MAX_TECHNICAL_NOTE_LENGTH
       THEN Answer(GenerateRoute, 400, "Technical note is too long", NoBody)
       ELSE IF body.patientData = "undefined"
       THEN Answer(GenerateRoute, 500, "Internal Server Error", NoBody)
       ELSE /\ Serve(r, Loop([IdleRequest EXCEPT !.route = GenerateRoute,
                                                 !.language = PatientLanguage(body)],
                             cachedToken, tokenExpiryMs))
            /\ UNCHANGED <<cachedToken, tokenExpiryMs>>

\* POST /ai/extract-text-from-document and POST /ai/regenerate-section, up to
\* the fetch they wait for
CallOnce(jwt, r, route, schemaOk) ==
    /\ aiRequests[r].pc = "idle"
    /\ IF ~Authenticate(jwt) THEN Unauthorized(route)
       ELSE IF ~schemaOk THEN Answer(route, 400, "Invalid input", NoBody)
       ELSE /\ Serve(r, Pending(BeginCall([IdleRequest EXCEPT !.route = route],
                                          cachedToken, tokenExpiryMs)))
            /\ UNCHANGED <<cachedToken, tokenExpiryMs>>

ExtractText(jwt, r, body) == CallOnce(jwt, r, ExtractRoute, ExtractSchemaOk(body))

RegenerateSection(jwt, r, body) ==
    CallOnce(jwt, r, RegenerateRoute, RegenerateSchemaOk(body))

\* the IAM endpoint answers the call of connection r
IamResponds(r, response) ==
    /\ aiRequests[r].pc = "iam"
    /\ LET request == aiRequests[r] IN
       IF ~response.ok
       THEN /\ Serve(r, Thrown(request, "Failed to get IAM token",
                               cachedToken, tokenExpiryMs))
            /\ UNCHANGED <<cachedToken, tokenExpiryMs>>
       ELSE IF ~response.accessToken \/ response.expiresIn = 0
       THEN /\ Serve(r, Thrown(request, "Invalid IAM token response",
                               cachedToken, tokenExpiryMs))
            /\ UNCHANGED <<cachedToken, tokenExpiryMs>>
       ELSE LET token == [issuedAt |-> clock, expiresIn |-> response.expiresIn] IN
            /\ cachedToken' = token
            /\ tokenExpiryMs' = TokenExpiry(request.now, response.expiresIn)
            /\ Serve(r, Pending([request EXCEPT !.pc = "chat", !.chatCalls = @ + 1]))

\* mutant: every error status clears the cache
RejectsEveryError(status) == status # 200

\* callWatsonx: response.status === 401 || response.status === 403
IsRejected(status) == status \in {401, 403}

\* the chat endpoint answers the call of connection r
WatsonxResponds(r, response) ==
    /\ aiRequests[r].pc = "chat"
    /\ LET request == aiRequests[r]
           rejected == IsRejected(response.status)
           token == IF rejected THEN NullToken ELSE cachedToken
           expiryMs == IF rejected THEN 0 ELSE tokenExpiryMs
       IN /\ cachedToken' = token
          /\ tokenExpiryMs' = expiryMs
          /\ IF response.status # 200
             THEN Serve(r, Thrown(request, "WatsonX API error", token, expiryMs))
             ELSE Serve(r, Returned(request, response, token, expiryMs))

\* time passes while calls wait
TickAi ==
    /\ clock < MaxAiClock
    /\ clock' = clock + 1
    /\ UNCHANGED <<dbVars, reply, nonDbVars>>

(***************************************************************************)
(* modules/auth: auth.service and auth.routes.  A refresh token is the     *)
(* number of the session it was issued for.                                *)
(***************************************************************************)
\* utils/refreshToken
HashRefreshToken(token) == <<"sha256", token>>
HashPassword(password) == <<"hash", password>>
ToLowerCase(email) == IF email = "U3" THEN "u3" ELSE email

\* createRefreshSession: the row it inserts into table, for the token it made
NewSession(table, userId) ==
    [userId |-> userId,
     refreshTokenHash |-> HashRefreshToken(Len(table) + 1),
     expiresAt |-> clock + RefreshTokenTtl,
     revokedAt |-> NoTime,
     accepted |-> 0]

\* mutant: the lookup leaves out revokedAt
IsUnexpiredSession(row, refreshTokenHash) ==
    /\ row.refreshTokenHash = refreshTokenHash
    /\ row.expiresAt > clock

\* mutant: the lookup leaves out expiresAt
IsUnrevokedSession(row, refreshTokenHash) ==
    /\ row.refreshTokenHash = refreshTokenHash
    /\ row.revokedAt = NoTime

\* findActiveSessionByToken: the where clause
IsActiveSession(row, refreshTokenHash) ==
    /\ row.refreshTokenHash = refreshTokenHash
    /\ row.revokedAt = NoTime
    /\ row.expiresAt > clock

FindActiveSessionByToken(refreshToken) ==
    LET found == {id \in DOMAIN sessions :
                    IsActiveSession(sessions[id], HashRefreshToken(refreshToken))}
    IN IF found = {} THEN NoRow ELSE CHOOSE id \in found : \A other \in found : id <= other

RevokeSessionById(table, id) == [table EXCEPT ![id].revokedAt = clock]

\* mutant: the update leaves out userId
RevokeSessionOfAnyUser(table, refreshToken, userId) ==
    [id \in DOMAIN table |->
        IF /\ table[id].refreshTokenHash = HashRefreshToken(refreshToken)
           /\ table[id].revokedAt = NoTime
        THEN [table[id] EXCEPT !.revokedAt = clock]
        ELSE table[id]]

RevokeSessionByToken(table, refreshToken, userId) ==
    [id \in DOMAIN table |->
        IF /\ table[id].refreshTokenHash = HashRefreshToken(refreshToken)
           /\ table[id].revokedAt = NoTime
           /\ table[id].userId = userId
        THEN [table[id] EXCEPT !.revokedAt = clock]
        ELSE table[id]]

RevokeAllUserSessions(table, userId) ==
    [id \in DOMAIN table |->
        IF table[id].userId = userId /\ table[id].revokedAt = NoTime
        THEN [table[id] EXCEPT !.revokedAt = clock]
        ELSE table[id]]

\* request bodies
SignupBodies == [email : {"", "u1", "U3"}, password : {"secret"}]
LoginBodies == [email : {"", "u1", "u2", "u4"}, password : {"secret", "wrong"}]
CredentialsOk(body) == body.email # ""
RefreshBodies == [refreshToken : 0..MaxSessions]
RefreshSchemaOk(body) == body.refreshToken # NoToken
LogoutBodies == [refreshToken : {NoRefreshToken, NoToken, 1}, allDevices : BOOLEAN]

\* a reply that carries tokens: the session of the refresh token it issued
Issued(route, code, table) ==
    /\ sessions' = table
    /\ reply' = Reply(route, code, "", <<Len(table)>>)

\* POST /auth/signup
Signup(body) ==
    LET route == "POST /auth/signup"
        email == ToLowerCase(body.email)
    IN IF ~CredentialsOk(body) THEN Answer(route, 400, "Invalid input", NoBody)
       ELSE IF email \in DOMAIN users
       THEN Answer(route, 409, "Email already in use", NoBody)
       ELSE /\ Len(sessions) < MaxSessions
            /\ users' = [id \in DOMAIN users \cup {email} |->
                            IF id = email
                            THEN [passwordHash |-> HashPassword(body.password),
                                  profile |-> "est"]
                            ELSE users[id]]
            /\ Issued(route, 201, Append(sessions, NewSession(sessions, email)))
            /\ UNCHANGED <<clock, dbVars, aiVars, accountVars, refreshes>>

\* POST /auth/login
Login(body) ==
    LET route == "POST /auth/login"
        email == ToLowerCase(body.email)
    IN IF ~CredentialsOk(body) THEN Answer(route, 400, "Invalid input", NoBody)
       ELSE IF email \notin DOMAIN users
       THEN Answer(route, 401, "Invalid credentials", NoBody)
       ELSE IF users[email].passwordHash # HashPassword(body.password)
       THEN Answer(route, 401, "Invalid credentials", NoBody)
       ELSE /\ Len(sessions) < MaxSessions
            /\ Issued(route, 200, Append(sessions, NewSession(sessions, email)))
            /\ UNCHANGED <<clock, dbVars, aiVars, accountVars, users, refreshes>>

\* POST /auth/refresh up to findActiveSessionByToken, on connection k
Refresh(k, body) ==
    LET route == "POST /auth/refresh" IN
    /\ refreshes[k] = NoRow
    /\ IF ~RefreshSchemaOk(body) THEN Answer(route, 400, "Invalid input", NoBody)
       ELSE IF FindActiveSessionByToken(body.refreshToken) = NoRow
       THEN Answer(route, 401, "Invalid refresh token", NoBody)
       ELSE /\ refreshes' = [refreshes EXCEPT
                                ![k] = FindActiveSessionByToken(body.refreshToken)]
            /\ UNCHANGED <<clock, dbVars, aiVars, accountVars, users, sessions, reply>>

\* POST /auth/refresh from revokeSessionById on, on connection k
Rotate(k) ==
    /\ refreshes[k] # NoRow
    /\ Len(sessions) < MaxSessions
    /\ LET activeSession == refreshes[k]
           revoked == [RevokeSessionById(sessions, activeSession)
                            EXCEPT ![activeSession].accepted = @ + 1]
       IN Issued("POST /auth/refresh", 200,
                 Append(revoked, NewSession(revoked, sessions[activeSession].userId)))
    /\ refreshes' = [refreshes EXCEPT ![k] = NoRow]
    /\ UNCHANGED <<clock, dbVars, aiVars, accountVars, users>>

\* GET /auth/me
Me(jwt) ==
    LET route == "GET /auth/me" IN
    IF ~Authenticate(jwt) THEN Unauthorized(route)
    ELSE IF jwt \notin DOMAIN users THEN Answer(route, 404, "User not found", NoBody)
    ELSE Answer(route, 200, "", NoBody)

\* POST /auth/logout
Logout(jwt, body) ==
    LET route == "POST /auth/logout" IN
    IF ~Authenticate(jwt) THEN Unauthorized(route)
    ELSE IF body.refreshToken = NoToken THEN Answer(route, 400, "Invalid input", NoBody)
    ELSE /\ IF body.allDevices \/ body.refreshToken = NoRefreshToken
            THEN /\ sessions' = RevokeAllUserSessions(sessions, jwt)
                 /\ reply' = Reply(route, 200, "Logged out from all devices", NoBody)
            ELSE /\ sessions' = RevokeSessionByToken(sessions, body.refreshToken, jwt)
                 /\ reply' = Reply(route, 200, "Logged out", NoBody)
         /\ UNCHANGED <<clock, dbVars, aiVars, accountVars, users, refreshes>>

(***************************************************************************)
(* modules/account: account.routes and account.service.  A deleted row     *)
(* keeps its id and is marked absent.                                      *)
(***************************************************************************)
MAX_CONTACTS == 5

AccountParams == {BadId, 1}
ProfileUpdateBodies == [language : {NotAString, "est"}]
ContactBodies == [name : {"", "Dr. Tamm"}, isPrimary : BOOLEAN]
UploadDocumentBodies == [fileName : {"", "ekg.pdf"}]

\* the rows of table that userId owns
RowsOf(table, userId) ==
    {id \in DOMAIN table : table[id].present /\ table[id].userId = userId}

\* findFirst({ where: { id, userId } })
FindOwned(table, id, userId) == IF id \in RowsOf(table, userId) THEN id ELSE NoRow

\* updateMany({ where: { userId, isPrimary: true, NOT: { id } }, data: { isPrimary: false } })
ClearPrimary(table, userId, isPrimary, except) ==
    [id \in DOMAIN table |->
        IF isPrimary /\ id \in RowsOf(table, userId) /\ id # except
        THEN [table[id] EXCEPT !.isPrimary = FALSE]
        ELSE table[id]]

\* GET /account/profile and PATCH /account/profile
AccountProfile(jwt, route, schemaOk, language) ==
    IF ~Authenticate(jwt) THEN Unauthorized(route)
    ELSE IF ~schemaOk THEN Answer(route, 400, "Invalid input", NoBody)
    ELSE IF jwt \notin DOMAIN users THEN Answer(route, 404, "User not found", NoBody)
    ELSE /\ users' = [users EXCEPT ![jwt].profile =
                        IF language = Absent /\ @ # NoProfile THEN @ ELSE
                        IF language = Absent THEN "est" ELSE language]
         /\ reply' = Reply(route, 200, "", NoBody)
         /\ UNCHANGED <<clock, dbVars, aiVars, accountVars, sessions, refreshes>>

GetProfile(jwt) == AccountProfile(jwt, "GET /account/profile", TRUE, Absent)

UpdateProfile(jwt, body) ==
    AccountProfile(jwt, "PATCH /account/profile", body.language # NotAString,
                   body.language)

\* a reply that lists rows
Listed(route, rows) == Answer(route, 200, "", rows)

\* GET /account/contacts
ListContacts(jwt) ==
    LET route == "GET /account/contacts" IN
    IF ~Authenticate(jwt) THEN Unauthorized(route)
    ELSE Listed(route, SelectSeq([id \in DOMAIN clinicianContacts |-> id],
                    LAMBDA id : id \in RowsOf(clinicianContacts, jwt)))

\* POST /account/contacts
CreateContact(jwt, body) ==
    LET route == "POST /account/contacts" IN
    IF ~Authenticate(jwt) THEN Unauthorized(route)
    ELSE IF body.name = "" THEN Answer(route, 400, "Invalid input", NoBody)
    ELSE IF Cardinality(RowsOf(clinicianContacts, jwt)) >= MAX_CONTACTS
    THEN Answer(route, 400, "Contact limit reached", NoBody)
    ELSE /\ Len(clinicianContacts) < MaxRows
         /\ clinicianContacts' =
                Append(ClearPrimary(clinicianContacts, jwt, body.isPrimary, NoRow),
                       [present |-> TRUE, userId |-> jwt, name |-> body.name,
                        isPrimary |-> body.isPrimary])
         /\ reply' = Reply(route, 201, "", <<Len(clinicianContacts) + 1>>)
         /\ UNCHANGED <<clock, dbVars, aiVars, authVars, userDocuments>>

\* PATCH /account/contacts/:id
UpdateContact(jwt, id, body) ==
    LET route == "PATCH /account/contacts/:id" IN
    IF ~Authenticate(jwt) THEN Unauthorized(route)
    ELSE IF id = BadId \/ body.name = "" THEN Answer(route, 400, "Invalid input", NoBody)
    ELSE IF FindOwned(clinicianContacts, id, jwt) = NoRow
    THEN Answer(route, 404, "Contact not found", NoBody)
    ELSE /\ clinicianContacts' =
                [ClearPrimary(clinicianContacts, jwt, body.isPrimary, id) EXCEPT
                    ![id].name = body.name, ![id].isPrimary = body.isPrimary]
         /\ reply' = Reply(route, 200, "", <<id>>)
         /\ UNCHANGED <<clock, dbVars, aiVars, authVars, userDocuments>>

\* DELETE /account/contacts/:id
DeleteContact(jwt, id) ==
    LET route == "DELETE /account/contacts/:id" IN
    IF ~Authenticate(jwt) THEN Unauthorized(route)
    ELSE IF id = BadId THEN Answer(route, 400, "Invalid input", NoBody)
    ELSE IF FindOwned(clinicianContacts, id, jwt) = NoRow
    THEN Answer(route, 404, "Contact not found", NoBody)
    ELSE /\ clinicianContacts' = [clinicianContacts EXCEPT ![id].present = FALSE]
         /\ reply' = Reply(route, 200, "Deleted", NoBody)
         /\ UNCHANGED <<clock, dbVars, aiVars, authVars, userDocuments>>

\* GET /account/documents
ListDocuments(jwt) ==
    LET route == "GET /account/documents" IN
    IF ~Authenticate(jwt) THEN Unauthorized(route)
    ELSE Listed(route, SelectSeq([id \in DOMAIN userDocuments |-> id],
                    LAMBDA id : id \in RowsOf(userDocuments, jwt)))

\* POST /account/documents
UploadDocument(jwt, body) ==
    LET route == "POST /account/documents" IN
    IF ~Authenticate(jwt) THEN Unauthorized(route)
    ELSE IF body.fileName = "" THEN Answer(route, 400, "Invalid input", NoBody)
    ELSE /\ Len(userDocuments) < MaxRows
         /\ userDocuments' = Append(userDocuments,
                [present |-> TRUE, userId |-> jwt, fileName |-> body.fileName])
         /\ reply' = Reply(route, 201, "", <<Len(userDocuments) + 1>>)
         /\ UNCHANGED <<clock, dbVars, aiVars, authVars, clinicianContacts>>

\* GET /account/documents/:id/download
DownloadDocument(jwt, id) ==
    LET route == "GET /account/documents/:id/download" IN
    IF ~Authenticate(jwt) THEN Unauthorized(route)
    ELSE IF id = BadId THEN Answer(route, 400, "Invalid input", NoBody)
    ELSE IF FindOwned(userDocuments, id, jwt) = NoRow
    THEN Answer(route, 404, "Document not found", NoBody)
    ELSE Answer(route, 200, "", <<id>>)

\* DELETE /account/documents/:id
DeleteDocument(jwt, id) ==
    LET route == "DELETE /account/documents/:id" IN
    IF ~Authenticate(jwt) THEN Unauthorized(route)
    ELSE IF id = BadId THEN Answer(route, 400, "Invalid input", NoBody)
    ELSE IF FindOwned(userDocuments, id, jwt) = NoRow
    THEN Answer(route, 404, "Document not found", NoBody)
    ELSE /\ userDocuments' = [userDocuments EXCEPT ![id].present = FALSE]
         /\ reply' = Reply(route, 200, "Deleted", NoBody)
         /\ UNCHANGED <<clock, dbVars, aiVars, authVars, clinicianContacts>>

(***************************************************************************)
(* Specifications.  Each serves requests one at a time, from callers whose *)
(* access JWT is valid unless said otherwise.                              *)
(***************************************************************************)
\* the /cases routes
NextCases ==
    \/ Tick
    \/ \E jwt \in Users, body \in CreateCaseBodies : CreateCase(jwt, body)
    \/ \E jwt \in Users, caseId \in CaseParams, body \in UpdateCaseBodies :
            UpdateCase(jwt, caseId, body)
    \/ \E jwt \in Users, caseId \in CaseParams, body \in SavePatientProfileBodies :
            SavePatientProfile(jwt, caseId, body)
    \/ \E jwt \in Users, caseId \in CaseParams, body \in SaveAnalysisBodies :
            SaveAiAnalysis(jwt, caseId, body)
    \/ \E jwt \in Users, caseId \in CaseParams, body \in SaveApprovalBodies :
            SaveApproval(jwt, caseId, body)
    \/ \E jwt \in Users, caseId \in CaseParams, body \in SaveCaseFeedbackBodies :
            SaveCaseFeedback(jwt, caseId, body)
    \/ \E jwt \in Users, caseId \in CaseParams : GetCase(jwt, caseId)
    \/ \E jwt \in Users, limit \in HistoryLimits : ListCases(jwt, limit)

SpecCases == Init /\ [][NextCases]_vars

\* approving, publishing and reading documents
NextDocs ==
    \/ Tick
    \/ \E jwt \in Users, body \in CreateCaseBodies : CreateCase(jwt, body)
    \/ \E jwt \in Users, caseId \in CaseParams, body \in SaveApprovalBodies :
            SaveApproval(jwt, caseId, body)
    \/ \E jwt \in Users, body \in PublishDocumentBodies, token \in Tokens \cup {NoToken} :
            PublishDocument(jwt, body, token)
    \/ \E jwt \in Users, caseId \in CaseParams : GetDocumentForCase(jwt, caseId)
    \/ \E jwt \in Users, documentId \in DocParams : DeactivateDocument(jwt, documentId)
    \/ \E token \in Tokens : GetPublicDocument(token)
    \/ \E body \in SubmitPatientFeedbackBodies : SubmitPatientFeedback(body)

SpecDocs == Init /\ [][NextDocs]_vars

\* the /ai routes and the endpoints they call
NextAi ==
    \/ TickAi
    \/ \E jwt \in Users, r \in 1..MaxGenerations, body \in GenerateBodies :
            GeneratePatientDocument(jwt, r, body)
    \/ \E jwt \in Users, r \in 1..MaxRequests, body \in ExtractBodies :
            ExtractText(jwt, r, body)
    \/ \E jwt \in Users, r \in 1..MaxRequests, body \in RegenerateBodies :
            RegenerateSection(jwt, r, body)
    \/ \E r \in 1..MaxRequests, response \in IamResponses : IamResponds(r, response)
    \/ \E r \in 1..MaxRequests, response \in WatsonxResponses :
            WatsonxResponds(r, response)

SpecAi == Init /\ [][NextAi]_vars

\* the /auth routes
NextAuth ==
    \/ Tick
    \/ \E body \in SignupBodies : Signup(body)
    \/ \E body \in LoginBodies : Login(body)
    \/ \E k \in 1..MaxRefreshes, body \in RefreshBodies : Refresh(k, body)
    \/ \E k \in 1..MaxRefreshes : Rotate(k)
    \/ \E jwt \in Users : Me(jwt)
    \/ \E jwt \in Users, body \in LogoutBodies : Logout(jwt, body)

SpecAuth == Init /\ [][NextAuth]_vars

\* POST /ai/generate-patient-document-v2 and the endpoints it calls
NextGenerate ==
    \/ TickAi
    \/ \E jwt \in Users, r \in 1..MaxGenerations, body \in GenerateBodies :
            GeneratePatientDocument(jwt, r, body)
    \/ \E r \in 1..MaxGenerations, response \in IamResponses : IamResponds(r, response)
    \/ \E r \in 1..MaxGenerations, response \in WatsonxResponses :
            WatsonxResponds(r, response)

SpecGenerate == Init /\ [][NextGenerate]_vars

\* validateDocument called on a document
SpecValidate == InitValidate /\ [][Validate]_vars

\* the same, where every fetch that is waited for returns or throws
SpecGenerateFair ==
    /\ SpecGenerate
    /\ \A r \in 1..MaxGenerations :
        /\ WF_vars(\E response \in IamResponses : IamResponds(r, response))
        /\ WF_vars(\E response \in WatsonxResponses : WatsonxResponds(r, response))

\* the rows stored, the requests being served, the time passed and the token
\* cached
ApiRows ==
    Len(patientCases) + Len(patientProfiles) + Len(aiAnalyses) + Len(approvals)
    + Len(caseFeedback) + Len(publishedDocuments) + Len(patientFeedback)
    + Len(sessions) + Len(clinicianContacts) + Len(userDocuments)
    + Cardinality({r \in 1..MaxRequests : aiRequests[r].pc # "idle"})
    + Cardinality({k \in 1..MaxRefreshes : refreshes[k] # NoRow})
    + clock + (IF cachedToken = NullToken THEN 0 ELSE 1)

\* requests with a token arrive while the server holds few rows, requests
\* without one at any time
Light(jwt) == jwt = NoJwt \/ ApiRows < MaxApiRows

\* every route of the API, called with and without an access token
NextApi ==
    \/ Tick
    \/ \E jwt \in Jwts, body \in CreateCaseBodies : Light(jwt) /\ CreateCase(jwt, body)
    \/ \E jwt \in Jwts, caseId \in CaseParams, body \in UpdateCaseBodies :
            Light(jwt) /\ UpdateCase(jwt, caseId, body)
    \/ \E jwt \in Jwts, caseId \in CaseParams, body \in SavePatientProfileBodies :
            Light(jwt) /\ SavePatientProfile(jwt, caseId, body)
    \/ \E jwt \in Jwts, caseId \in CaseParams, body \in SaveAnalysisBodies :
            Light(jwt) /\ SaveAiAnalysis(jwt, caseId, body)
    \/ \E jwt \in Jwts, caseId \in CaseParams, body \in SaveApprovalBodies :
            Light(jwt) /\ SaveApproval(jwt, caseId, body)
    \/ \E jwt \in Jwts, caseId \in CaseParams, body \in SaveCaseFeedbackBodies :
            Light(jwt) /\ SaveCaseFeedback(jwt, caseId, body)
    \/ \E jwt \in Jwts, caseId \in CaseParams : Light(jwt) /\ GetCase(jwt, caseId)
    \/ \E jwt \in Jwts, limit \in HistoryLimits : Light(jwt) /\ ListCases(jwt, limit)
    \/ \E jwt \in Jwts, body \in PublishDocumentBodies, token \in Tokens \cup {NoToken} :
            Light(jwt) /\ PublishDocument(jwt, body, token)
    \/ \E jwt \in Jwts, caseId \in CaseParams :
            Light(jwt) /\ GetDocumentForCase(jwt, caseId)
    \/ \E jwt \in Jwts, documentId \in DocParams :
            Light(jwt) /\ DeactivateDocument(jwt, documentId)
    \/ \E token \in Tokens : GetPublicDocument(token)
    \/ \E body \in SubmitPatientFeedbackBodies :
            Light(Absent) /\ SubmitPatientFeedback(body)
    \/ \E jwt \in Jwts, body \in GenerateBodies :
            Light(jwt) /\ GeneratePatientDocument(jwt, 1, body)
    \/ \E jwt \in Jwts, body \in ExtractBodies : Light(jwt) /\ ExtractText(jwt, 1, body)
    \/ \E jwt \in Jwts, body \in RegenerateBodies :
            Light(jwt) /\ RegenerateSection(jwt, 1, body)
    \/ \E response \in IamResponses : IamResponds(1, response)
    \/ \E response \in WatsonxResponses : WatsonxResponds(1, response)
    \/ \E body \in SignupBodies : Light(Absent) /\ Signup(body)
    \/ \E body \in LoginBodies : Light(Absent) /\ Login(body)
    \/ \E body \in RefreshBodies : Refresh(1, body)
    \/ Rotate(1)
    \/ \E jwt \in Jwts : Light(jwt) /\ Me(jwt)
    \/ \E jwt \in Jwts, body \in LogoutBodies : Light(jwt) /\ Logout(jwt, body)
    \/ \E jwt \in Jwts : Light(jwt) /\ GetProfile(jwt)
    \/ \E jwt \in Jwts, body \in ProfileUpdateBodies :
            Light(jwt) /\ UpdateProfile(jwt, body)
    \/ \E jwt \in Jwts : Light(jwt) /\ ListContacts(jwt)
    \/ \E jwt \in Jwts, body \in ContactBodies : Light(jwt) /\ CreateContact(jwt, body)
    \/ \E jwt \in Jwts, id \in AccountParams, body \in ContactBodies :
            Light(jwt) /\ UpdateContact(jwt, id, body)
    \/ \E jwt \in Jwts, id \in AccountParams : Light(jwt) /\ DeleteContact(jwt, id)
    \/ \E jwt \in Jwts : Light(jwt) /\ ListDocuments(jwt)
    \/ \E jwt \in Jwts, body \in UploadDocumentBodies :
            Light(jwt) /\ UploadDocument(jwt, body)
    \/ \E jwt \in Jwts, id \in AccountParams : Light(jwt) /\ DownloadDocument(jwt, id)
    \/ \E jwt \in Jwts, id \in AccountParams : Light(jwt) /\ DeleteDocument(jwt, id)

SpecApi == Init /\ [][NextApi]_vars

\* a request with a token whose params, query or body fail the schema of its
\* route
InvalidRequest ==
    \E jwt \in Users :
        \/ \E body \in CreateCaseBodies :
                ~CreateCaseSchemaOk(body) /\ CreateCase(jwt, body)
        \/ \E caseId \in CaseParams :
            \/ \E body \in UpdateCaseBodies :
                /\ ~(CaseParamsOk(caseId) /\ UpdateCaseFieldsOk(body)
                        /\ UpdateCaseRefineOk(body))
                /\ UpdateCase(jwt, caseId, body)
            \/ \E body \in SavePatientProfileBodies :
                /\ ~(CaseParamsOk(caseId) /\ SavePatientProfileSchemaOk(body))
                /\ SavePatientProfile(jwt, caseId, body)
            \/ \E body \in SaveAnalysisBodies :
                /\ ~(CaseParamsOk(caseId) /\ SaveAnalysisSchemaOk(body))
                /\ SaveAiAnalysis(jwt, caseId, body)
            \/ \E body \in SaveApprovalBodies :
                /\ ~(CaseParamsOk(caseId) /\ SaveApprovalSchemaOk(body))
                /\ SaveApproval(jwt, caseId, body)
            \/ \E body \in SaveCaseFeedbackBodies :
                /\ ~(CaseParamsOk(caseId) /\ SaveCaseFeedbackSchemaOk(body))
                /\ SaveCaseFeedback(jwt, caseId, body)
            \/ ~CaseParamsOk(caseId) /\ GetCase(jwt, caseId)
            \/ ~CaseParamsOk(caseId) /\ GetDocumentForCase(jwt, caseId)
        \/ \E limit \in HistoryLimits :
                ~QueryCaseHistorySchemaOk(limit) /\ ListCases(jwt, limit)
        \/ \E body \in PublishDocumentBodies, token \in Tokens \cup {NoToken} :
                ~PublishDocumentSchemaOk(body) /\ PublishDocument(jwt, body, token)
        \/ \E documentId \in DocParams :
                ~DocParamsOk(documentId) /\ DeactivateDocument(jwt, documentId)
        \/ \E body \in SubmitPatientFeedbackBodies :
                ~SubmitPatientFeedbackSchemaOk(body) /\ SubmitPatientFeedback(body)
        \/ \E body \in GenerateBodies :
                ~GenerateSchemaOk(body) /\ GeneratePatientDocument(jwt, 1, body)
        \/ \E body \in ExtractBodies :
                ~ExtractSchemaOk(body) /\ ExtractText(jwt, 1, body)
        \/ \E body \in RegenerateBodies :
                ~RegenerateSchemaOk(body) /\ RegenerateSection(jwt, 1, body)
        \/ \E body \in SignupBodies : ~CredentialsOk(body) /\ Signup(body)
        \/ \E body \in LoginBodies : ~CredentialsOk(body) /\ Login(body)
        \/ \E body \in RefreshBodies : ~RefreshSchemaOk(body) /\ Refresh(1, body)
        \/ \E body \in LogoutBodies : body.refreshToken = NoToken /\ Logout(jwt, body)
        \/ \E body \in ProfileUpdateBodies :
                body.language = NotAString /\ UpdateProfile(jwt, body)
        \/ \E body \in ContactBodies :
            \/ body.name = "" /\ CreateContact(jwt, body)
            \/ \E id \in AccountParams :
                    (id = BadId \/ body.name = "") /\ UpdateContact(jwt, id, body)
        \/ DeleteContact(jwt, BadId)
        \/ \E body \in UploadDocumentBodies :
                body.fileName = "" /\ UploadDocument(jwt, body)
        \/ DownloadDocument(jwt, BadId)
        \/ DeleteDocument(jwt, BadId)

\* requests that pass the schema arrive while the server holds few rows
Few == ApiRows < MaxApiRows

\* every route called with a token: bodies of every shape while few rows are
\* stored, bodies that fail the schema at any time
NextInputs ==
    \/ InvalidRequest
    \/ \E jwt \in Users, body \in CreateCaseBodies : Few /\ CreateCase(jwt, body)
    \/ \E jwt \in Users, caseId \in CaseParams, body \in UpdateCaseBodies :
            Few /\ UpdateCase(jwt, caseId, body)
    \/ \E jwt \in Users, caseId \in CaseParams, body \in SavePatientProfileBodies :
            Few /\ SavePatientProfile(jwt, caseId, body)
    \/ \E jwt \in Users, caseId \in CaseParams, body \in SaveAnalysisBodies :
            Few /\ SaveAiAnalysis(jwt, caseId, body)
    \/ \E jwt \in Users, caseId \in CaseParams, body \in SaveApprovalBodies :
            Few /\ SaveApproval(jwt, caseId, body)
    \/ \E jwt \in Users, caseId \in CaseParams, body \in SaveCaseFeedbackBodies :
            Few /\ SaveCaseFeedback(jwt, caseId, body)
    \/ \E jwt \in Users, caseId \in CaseParams : Few /\ GetCase(jwt, caseId)
    \/ \E jwt \in Users, limit \in HistoryLimits : Few /\ ListCases(jwt, limit)
    \/ \E jwt \in Users, body \in PublishDocumentBodies, token \in Tokens \cup {NoToken} :
            Few /\ PublishDocument(jwt, body, token)
    \/ \E jwt \in Users, caseId \in CaseParams : Few /\ GetDocumentForCase(jwt, caseId)
    \/ \E jwt \in Users, documentId \in DocParams :
            Few /\ DeactivateDocument(jwt, documentId)
    \/ \E token \in Tokens : Few /\ GetPublicDocument(token)
    \/ \E body \in SubmitPatientFeedbackBodies : Few /\ SubmitPatientFeedback(body)
    \/ \E jwt \in Users, body \in GenerateBodies :
            Few /\ GeneratePatientDocument(jwt, 1, body)
    \/ \E jwt \in Users, body \in ExtractBodies : Few /\ ExtractText(jwt, 1, body)
    \/ \E jwt \in Users, body \in RegenerateBodies :
            Few /\ RegenerateSection(jwt, 1, body)
    \/ \E response \in IamResponses : IamResponds(1, response)
    \/ \E response \in WatsonxResponses : WatsonxResponds(1, response)
    \/ \E body \in SignupBodies : Few /\ Signup(body)
    \/ \E body \in LoginBodies : Few /\ Login(body)
    \/ \E body \in RefreshBodies : Refresh(1, body)
    \/ Rotate(1)
    \/ \E jwt \in Users : Few /\ Me(jwt)
    \/ \E jwt \in Users, body \in LogoutBodies : Few /\ Logout(jwt, body)
    \/ \E jwt \in Users : Few /\ GetProfile(jwt)
    \/ \E jwt \in Users, body \in ProfileUpdateBodies : Few /\ UpdateProfile(jwt, body)
    \/ \E jwt \in Users : Few /\ ListContacts(jwt)
    \/ \E jwt \in Users, body \in ContactBodies : Few /\ CreateContact(jwt, body)
    \/ \E jwt \in Users, id \in AccountParams, body \in ContactBodies :
            Few /\ UpdateContact(jwt, id, body)
    \/ \E jwt \in Users, id \in AccountParams : Few /\ DeleteContact(jwt, id)
    \/ \E jwt \in Users : Few /\ ListDocuments(jwt)
    \/ \E jwt \in Users, body \in UploadDocumentBodies : Few /\ UploadDocument(jwt, body)
    \/ \E jwt \in Users, id \in AccountParams : Few /\ DownloadDocument(jwt, id)
    \/ \E jwt \in Users, id \in AccountParams : Few /\ DeleteDocument(jwt, id)

SpecInputs == Init /\ [][NextInputs]_vars

(***************************************************************************)
(* Claims.                                                                 *)
(***************************************************************************)
\* the case exists and userId did not create it
CreatedByAnother(userId, caseId) ==
    caseId \in DOMAIN patientCases /\ patientCases[caseId].createdBy # userId

\* the case has an approval record
HasApproval(caseId) == \E i \in DOMAIN approvals : approvals[i].caseId = caseId

\* C1 (as claimed): POST /documents publishes a document only for a case that
\* already has an approval record, so no unapproved document reaches patients.
C1_PublishNeedsApproval ==
    [][Len(publishedDocuments') > Len(publishedDocuments)
        => HasApproval(publishedDocuments'[Len(publishedDocuments')].caseId)]_vars

\* C2 (as claimed): a request of user u on a case that another user created is
\* answered 404 "Case not found" and changes no record; GET /cases returns only
\* cases created by u.
C2_ForeignCaseAlways404 ==
    [][\A jwt \in Users :
        /\ \A caseId \in 1..MaxCases :
            (/\ CreatedByAnother(jwt, caseId)
             /\ \/ \E body \in UpdateCaseBodies : UpdateCase(jwt, caseId, body)
                \/ \E body \in SavePatientProfileBodies :
                        SavePatientProfile(jwt, caseId, body)
                \/ \E body \in SaveAnalysisBodies : SaveAiAnalysis(jwt, caseId, body)
                \/ \E body \in SaveApprovalBodies : SaveApproval(jwt, caseId, body)
                \/ \E body \in SaveCaseFeedbackBodies :
                        SaveCaseFeedback(jwt, caseId, body)
                \/ GetCase(jwt, caseId))
            => /\ reply'.code = 404
               /\ reply'.message = "Case not found"
               /\ UNCHANGED dbVars
        /\ \A limit \in HistoryLimits :
            (ListCases(jwt, limit) /\ reply'.code = 200)
            => \A k \in DOMAIN reply'.body :
                    patientCases[reply'.body[k]].createdBy = jwt]_vars

\* the reply to a request on a case of another user: 400 when the body fails
\* the route's schema, 404 "Case not found" otherwise; no record changes
Refused(schemaOk) ==
    /\ UNCHANGED dbVars
    /\ IF schemaOk
       THEN reply'.code = 404 /\ reply'.message = "Case not found"
       ELSE reply'.code = 400

\* C2 (amended): a request of user u on a case that another user created
\* changes no record and is answered 404 "Case not found", or 400 when its body
\* fails the route's schema; GET /cases returns only cases created by u.
C2_ForeignCaseRefused ==
    [][\A jwt \in Users :
        /\ \A caseId \in 1..MaxCases :
            CreatedByAnother(jwt, caseId) =>
                /\ \A body \in UpdateCaseBodies :
                    UpdateCase(jwt, caseId, body)
                    => Refused(UpdateCaseFieldsOk(body) /\ UpdateCaseRefineOk(body))
                /\ \A body \in SavePatientProfileBodies :
                    SavePatientProfile(jwt, caseId, body)
                    => Refused(SavePatientProfileSchemaOk(body))
                /\ \A body \in SaveAnalysisBodies :
                    SaveAiAnalysis(jwt, caseId, body)
                    => Refused(SaveAnalysisSchemaOk(body))
                /\ \A body \in SaveApprovalBodies :
                    SaveApproval(jwt, caseId, body)
                    => Refused(SaveApprovalSchemaOk(body))
                /\ \A body \in SaveCaseFeedbackBodies :
                    SaveCaseFeedback(jwt, caseId, body)
                    => Refused(SaveCaseFeedbackSchemaOk(body))
                /\ GetCase(jwt, caseId) => Refused(TRUE)
        /\ \A limit \in HistoryLimits :
            (ListCases(jwt, limit) /\ reply'.code = 200)
            => \A k \in DOMAIN reply'.body :
                    patientCases[reply'.body[k]].createdBy = jwt]_vars

\* C2 witness: a case exists and the PATCH served last was answered 404; every
\* well-formed :caseId names an existing case, so the caller was not its creator.
C2_Witness ==
    /\ Len(patientCases) = MaxCases
    /\ reply.route = "PATCH /cases/:caseId"
    /\ reply.code = 404

\* C8 (as claimed): a case is created with status draft, and a request leaves a
\* case's status where it is or moves it to the next status of the flow.
C8_StatusFlow ==
    [][/\ \A c \in DOMAIN patientCases :
            \/ patientCases'[c].status = patientCases[c].status
            \/ StatusRank(patientCases'[c].status)
                    = StatusRank(patientCases[c].status) + 1
       /\ \A c \in DOMAIN patientCases' :
            c \notin DOMAIN patientCases => patientCases'[c].status = "draft"]_vars

\* the document's row holds the token and the public endpoint must not serve
\* it: it was deactivated, or its expires_at is at or before the current time
Withdrawn(row, token) ==
    /\ row.accessToken = token
    /\ \/ ~row.isActive
       \/ (row.expiresAt # NoTime /\ row.expiresAt <= clock)

\* C9: no request sets is_active back to true, and GET /public/documents/:token
\* answers 404 "Document not found" for the token of a document that was
\* deactivated or whose expires_at is at or before the current time; the
\* document it does return is active and not expired.
C9_DeactivatedStaysUnreachable ==
    [][/\ \A i \in DOMAIN publishedDocuments :
            ~publishedDocuments[i].isActive
            => i \in DOMAIN publishedDocuments' /\ ~publishedDocuments'[i].isActive
       /\ \A token \in Tokens :
            GetPublicDocument(token) =>
                /\ (\E i \in DOMAIN publishedDocuments :
                        Withdrawn(publishedDocuments[i], token))
                    => /\ reply'.code = 404
                       /\ reply'.message = "Document not found"
                       /\ UNCHANGED dbVars
                /\ reply'.code = 200
                    => /\ publishedDocuments[reply'.body[1]].accessToken = token
                       /\ ~Withdrawn(publishedDocuments[reply'.body[1]], token)]_vars

\* C9 witness: every token belongs to a deactivated document without expiry,
\* and the public GET served last was answered 404.
C9_Witness ==
    /\ \A token \in Tokens :
        \E i \in DOMAIN publishedDocuments :
            /\ publishedDocuments[i].accessToken = token
            /\ ~publishedDocuments[i].isActive
            /\ publishedDocuments[i].expiresAt = NoTime
    /\ reply.route = "GET /public/documents/:token"
    /\ reply.code = 404

\* C10: an approval record is created only by POST /cases/:caseId/approval and
\* stores the caller as approved_by, the case of the request and the current
\* time; the caller created that case; no request changes or removes an
\* approval record that exists.
C10_ApprovalAuditTrail ==
    [][/\ \A i \in DOMAIN approvals :
            i \in DOMAIN approvals' /\ approvals'[i] = approvals[i]
       /\ Len(approvals') > Len(approvals) =>
            /\ Len(approvals') = Len(approvals) + 1
            /\ \E jwt \in Users, caseId \in CaseParams, body \in SaveApprovalBodies :
                    SaveApproval(jwt, caseId, body)
            /\ \A jwt \in Users, caseId \in CaseParams, body \in SaveApprovalBodies :
                    SaveApproval(jwt, caseId, body) =>
                        /\ approvals'[Len(approvals')].approvedBy = jwt
                        /\ approvals'[Len(approvals')].caseId = caseId
                        /\ approvals'[Len(approvals')].approvedAt = clock
                        /\ caseId \in DOMAIN patientCases
                        /\ patientCases[caseId].createdBy = jwt]_vars

\* C10 witness: an approval was recorded at an earlier time and a later request
\* changed the case it belongs to.
C10_Witness ==
    /\ approvals # <<>>
    /\ approvals[1].approvedAt < clock
    /\ patientCases[approvals[1].caseId].status = "completed"

\* the generate request on connection r made one more chat call in this step
MadeChatCall(r) ==
    /\ aiRequests[r].route = GenerateRoute
    /\ aiRequests'[r].route = GenerateRoute
    /\ aiRequests'[r].chatCalls = aiRequests[r].chatCalls + 1

\* the messages of the failures after which the handler tries again
AttemptFailures ==
    {"Failed to get IAM token", "Invalid IAM token response", "WatsonX API error",
     "No content received from AI", "SyntaxError", "TypeError", "VALIDATION ERRORS"}

\* the chat response carries a document that validateDocument passes
PassesValidation(response, language) ==
    /\ response.status = 200
    /\ response.content = "json"
    /\ ~ValidateDocumentThrows(response.document)
    /\ ValidateDocument(response.document, language).errors = <<>>

\* C3: a generate request makes at most two WatsonX chat calls; it makes a
\* call after an earlier one only when the earlier attempt failed; a chat
\* response whose document passes validation ends the request with 200.
C3_AtMostTwoChatCalls ==
    [][\A r \in 1..MaxRequests :
        /\ aiRequests'[r].route = GenerateRoute => aiRequests'[r].chatCalls <= 2
        /\ (MadeChatCall(r) /\ aiRequests[r].chatCalls >= 1)
            => /\ aiRequests'[r].lastError \in AttemptFailures
               /\ aiRequests'[r].attempts = 2
        /\ \A response \in WatsonxResponses :
            (/\ aiRequests[r].route = GenerateRoute
             /\ aiRequests[r].pc = "chat"
             /\ PassesValidation(response, aiRequests[r].language)
             /\ WatsonxResponds(r, response))
            => /\ aiRequests'[r] = IdleRequest
               /\ reply'.route = GenerateRoute
               /\ reply'.code = 200]_vars

\* C3 witness: the second chat call of a request is in flight, after the
\* document of the first failed validation.
C3_Witness ==
    \E r \in 1..MaxRequests :
        /\ aiRequests[r].route = GenerateRoute
        /\ aiRequests[r].pc = "chat"
        /\ aiRequests[r].chatCalls = 2
        /\ aiRequests[r].lastError = "VALIDATION ERRORS"

\* C4: the request is validated for patientData.language, english when it is
\* not given; a 200 reply carries the document of the chat response being
\* handled, and that document has no validation error; when the second
\* attempt fails validation the reply is 500 with that document's validation
\* errors and warnings.
C4_OnlyValidatedDocuments ==
    [][\A r \in 1..MaxRequests :
        /\ \A jwt \in Users, body \in GenerateBodies :
            (/\ aiRequests[r].pc = "idle"
             /\ aiRequests'[r].pc # "idle"
             /\ GeneratePatientDocument(jwt, r, body))
            => aiRequests'[r].language =
                    (IF body.language = Absent THEN "english" ELSE body.language)
        /\ \A response \in WatsonxResponses :
            (/\ aiRequests[r].route = GenerateRoute
             /\ aiRequests[r].pc = "chat"
             /\ WatsonxResponds(r, response))
            => LET language == aiRequests[r].language
                   document == response.document
               IN /\ (aiRequests'[r].pc = "idle" /\ reply'.code = 200)
                     => /\ PassesValidation(response, language)
                        /\ reply'.body.document = document
                        /\ \A section \in Sections :
                                document[section].length >= MIN_SECTION_LENGTH
                        /\ language # "english" => Includes(document, NonAscii)
                  /\ (/\ aiRequests[r].attempts = 2
                      /\ response.status = 200
                      /\ response.content = "json"
                      /\ ~ValidateDocumentThrows(document)
                      /\ ValidateDocument(document, language).errors # <<>>)
                     => /\ reply'.code = 500
                        /\ reply'.body.validationErrors
                                = ValidateDocument(document, language).errors
                        /\ reply'.body.validationWarnings
                                = ValidateDocument(document, language).warnings]_vars

\* C4 witness: a request for an Estonian reader was answered 200 with a
\* document that has non-ASCII text.
C4_Witness ==
    /\ reply.route = GenerateRoute
    /\ reply.code = 200
    /\ Includes(reply.body.document, NonAscii)

\* getIAMToken was called for connection r in this step
CalledGetIAMToken(r) ==
    /\ aiRequests'[r].pc # "idle"
    /\ \/ aiRequests[r].pc = "idle"
       \/ aiRequests'[r].attempts > aiRequests[r].attempts

\* C5: getIAMToken goes on to the chat call with the cached token exactly when
\* a token is cached and its stored expiry is later than the current time,
\* and otherwise asks the IAM endpoint; a new token is stored with expiry =
\* the time of the call + (expires_in - 300) seconds; a token the cache
\* serves is more than 300 seconds away from its real expiry.
C5_IamTokenCache ==
    [][\A r \in 1..MaxRequests :
        /\ CalledGetIAMToken(r)
            => /\ aiRequests'[r].now = NowMs
               /\ IF cachedToken' # NullToken /\ tokenExpiryMs' > NowMs
                  THEN /\ aiRequests'[r].pc = "chat"
                       /\ RealExpiryMs(cachedToken') - NowMs > 300 * 1000
                  ELSE aiRequests'[r].pc = "iam"
        /\ \A response \in IamResponses :
            (/\ aiRequests[r].pc = "iam"
             /\ response.ok /\ response.accessToken /\ response.expiresIn # 0
             /\ IamResponds(r, response))
            => /\ cachedToken' = [issuedAt |-> clock, expiresIn |-> response.expiresIn]
               /\ tokenExpiryMs'
                    = aiRequests[r].now + (response.expiresIn - 300) * 1000]_vars

\* C5 witness: a chat call is in flight whose token the cache served: the
\* cached token was issued before the call began.
C5_Witness ==
    \E r \in 1..MaxRequests :
        /\ aiRequests[r].pc = "chat"
        /\ cachedToken # NullToken
        /\ cachedToken.issuedAt * TickMs < aiRequests[r].now
        /\ tokenExpiryMs > NowMs

\* a refresh with this token was accepted before
AcceptedBefore(refreshToken) ==
    \E id \in DOMAIN sessions :
        /\ sessions[id].refreshTokenHash = HashRefreshToken(refreshToken)
        /\ sessions[id].accepted >= 1

WithoutToken ==
    \/ \E body \in CreateCaseBodies : CreateCase(NoJwt, body)
    \/ \E caseId \in CaseParams :
        \/ \E body \in UpdateCaseBodies : UpdateCase(NoJwt, caseId, body)
        \/ \E body \in SavePatientProfileBodies : SavePatientProfile(NoJwt, caseId, body)
        \/ \E body \in SaveAnalysisBodies : SaveAiAnalysis(NoJwt, caseId, body)
        \/ \E body \in SaveApprovalBodies : SaveApproval(NoJwt, caseId, body)
        \/ \E body \in SaveCaseFeedbackBodies : SaveCaseFeedback(NoJwt, caseId, body)
        \/ GetCase(NoJwt, caseId)
        \/ GetDocumentForCase(NoJwt, caseId)
    \/ \E limit \in HistoryLimits : ListCases(NoJwt, limit)
    \/ \E body \in PublishDocumentBodies, token \in Tokens \cup {NoToken} :
            PublishDocument(NoJwt, body, token)
    \/ \E documentId \in DocParams : DeactivateDocument(NoJwt, documentId)
    \/ \E r \in 1..MaxRequests :
        \/ \E body \in GenerateBodies : GeneratePatientDocument(NoJwt, r, body)
        \/ \E body \in ExtractBodies : ExtractText(NoJwt, r, body)
        \/ \E body \in RegenerateBodies : RegenerateSection(NoJwt, r, body)
    \/ Me(NoJwt)
    \/ \E body \in LogoutBodies : Logout(NoJwt, body)
    \/ GetProfile(NoJwt)
    \/ \E body \in ProfileUpdateBodies : UpdateProfile(NoJwt, body)
    \/ ListContacts(NoJwt)
    \/ \E body \in ContactBodies : CreateContact(NoJwt, body)
    \/ \E id \in AccountParams :
        \/ \E body \in ContactBodies : UpdateContact(NoJwt, id, body)
        \/ DeleteContact(NoJwt, id)
        \/ DownloadDocument(NoJwt, id)
        \/ DeleteDocument(NoJwt, id)
    \/ ListDocuments(NoJwt)
    \/ \E body \in UploadDocumentBodies : UploadDocument(NoJwt, body)

\* a request to one of the two public routes
PublicRequest ==
    \/ \E token \in Tokens : GetPublicDocument(token)
    \/ \E body \in SubmitPatientFeedbackBodies : SubmitPatientFeedback(body)

\* C7: a request without a bearer token to a route that requires one is
\* answered 401 "Unauthorized", changes no stored row, session or cached token
\* and starts no call to WatsonX; the two public routes are served without a
\* token and never answer 401.
C7_TokenRequired ==
    [][/\ \/ /\ reply'.code = 401
             /\ reply'.message = "Unauthorized"
             /\ reply'.body = NoBody
             /\ UNCHANGED <<clock, dbVars, aiVars, authVars, accountVars>>
          \/ ~WithoutToken
       /\ PublicRequest =>
            /\ reply'.code # 401
            /\ reply'.route \in {"GET /public/documents/:token",
                                 "POST /public/patient-feedback"}]_vars

\* C7 witness: a request without a token was refused while a case is stored
C7_Witness ==
    /\ reply.code = 401
    /\ reply.message = "Unauthorized"
    /\ reply.route = "PATCH /cases/:caseId"
    /\ Len(patientCases) > 0

\* PATCH /cases/:caseId with none of its three fields
EmptyUpdate == [technicalNote |-> Absent, uploadedFileNames |-> Absent, status |-> Absent]

Generating(r) == aiRequests[r].pc # "idle" /\ aiRequests[r].route = GenerateRoute

\* C12: a generate request is in its first or second loop iteration while it
\* is served; a step of it either waits for the next fetch without replying
\* or ends it with one reply, 200 or 500 (400 when it is refused before the
\* loop), never "Unexpected generation flow exit"; when every fetch returns
\* or throws, the request ends.
C12_GenerateEnds ==
    /\ [][\A r \in 1..MaxGenerations :
            /\ Generating(r)' => aiRequests'[r].attempts \in 1..(MAX_RETRIES + 1)
            /\ (Generating(r) /\ aiRequests'[r] # aiRequests[r])
                => IF aiRequests'[r].pc = "idle"
                   THEN /\ reply'.route = GenerateRoute
                        /\ reply'.code \in {200, 500}
                        /\ reply'.message # "Unexpected generation flow exit"
                   ELSE /\ reply' = reply
                        /\ aiRequests'[r].attempts >= aiRequests[r].attempts
            /\ \A jwt \in Users, body \in GenerateBodies :
                GeneratePatientDocument(jwt, r, body)
                => IF Generating(r)'
                   THEN reply' = reply /\ aiRequests'[r].attempts = 1
                   ELSE reply'.route = GenerateRoute /\ reply'.code \in {400, 500}]_vars
    /\ \A r \in 1..MaxGenerations : Generating(r) ~> ~Generating(r)

\* C12 witness: a request ended in its second iteration, its second document
\* having failed validation
C12_Witness ==
    /\ aiRequests[1] = IdleRequest
    /\ reply.route = GenerateRoute
    /\ reply.code = 500
    /\ reply.message = "AI generation incomplete after retries. Please regenerate."

\* validateDocument has returned
Validated == reply.route = "validateDocument" /\ reply.message = "returned"

\* C13: validateDocument reports passed exactly when it reports no error,
\* and that is exactly when all seven sections have a trimmed length of at
\* least 50, section 6 has an emergency keyword, no uncertainty phrase
\* occurs, no section is a placeholder, and the language is english or the
\* content has a non-ASCII character; warnings play no part.
C13_ValidationPasses ==
    Validated =>
        LET doc == reply.body.document
            language == reply.body.language
            result == reply.body.result
        IN /\ result.passed <=> result.errors = <<>>
           /\ result.passed <=>
                /\ \A section \in Sections : doc[section].length >= MIN_SECTION_LENGTH
                /\ \E word \in EmergencyWords : word \in doc[6].words
                /\ \A i \in DOMAIN UncertaintyPhrases :
                        \A section \in Sections :
                            UncertaintyPhrases[i] \notin doc[section].words
                /\ \A section \in Sections : doc[section].kind \notin PlaceholderKinds
                /\ \/ language = "english"
                   \/ \E section \in Sections : NonAscii \in doc[section].words

\* C13 witness: a document for an Estonian reader passed with the three
\* kinds of warning
C13_Witness ==
    /\ Validated
    /\ reply.body.language = "estonian"
    /\ reply.body.result.passed
    /\ Len(reply.body.result.warnings) >= 3

\* C14: a document passes validateDocument only if its section 6 contains
\* "112".
C14_Needs112 ==
    (Validated /\ reply.body.result.passed) => "112" \in reply.body.document[6].words

\* the IAM response carries no usable token
IamFailed(response) == ~(response.ok /\ response.accessToken /\ response.expiresIn # 0)

\* C15: a chat response with status 401 or 403 sets the cached token to null
\* and its expiry to 0, and the call made next asks the IAM endpoint; a chat
\* response with any other status and a failed or malformed IAM response
\* leave both as they are; nothing else clears the cache.
C15_CacheClearedOnRejection ==
    [][/\ \A r \in 1..MaxRequests :
            /\ \A response \in WatsonxResponses :
                \/ IF response.status \in {401, 403}
                   THEN /\ cachedToken' = NullToken
                        /\ tokenExpiryMs' = 0
                        /\ aiRequests'[r].pc \in {"idle", "iam"}
                   ELSE UNCHANGED <<cachedToken, tokenExpiryMs>>
                \/ aiRequests[r].pc # "chat"
                \/ aiRequests'[r] = aiRequests[r]
                \/ ~WatsonxResponds(r, response)
            /\ \A response \in IamResponses :
                \/ UNCHANGED <<cachedToken, tokenExpiryMs>>
                \/ aiRequests[r].pc # "iam"
                \/ ~IamFailed(response)
                \/ ~IamResponds(r, response)
            /\ (CalledGetIAMToken(r) /\ cachedToken' = NullToken)
                => aiRequests'[r].pc = "iam"
       /\ (cachedToken # NullToken /\ cachedToken' = NullToken)
            => \E r \in 1..MaxRequests, response \in WatsonxResponses :
                /\ response.status \in {401, 403}
                /\ aiRequests[r].pc = "chat"
                /\ WatsonxResponds(r, response)]_vars

\* C15 witness: the chat call of a generate request was rejected, the cache
\* is cleared and the second attempt waits for a new IAM token
C15_Witness ==
    \E r \in 1..MaxRequests :
        /\ aiRequests[r].route = GenerateRoute
        /\ aiRequests[r].pc = "iam"
        /\ aiRequests[r].attempts = 2
        /\ aiRequests[r].chatCalls = 1
        /\ aiRequests[r].lastError = "WatsonX API error"
        /\ cachedToken = NullToken
        /\ tokenExpiryMs = 0

\* the sessions a logout of userId with this body is to revoke
ToRevoke(userId, body) ==
    {id \in DOMAIN sessions :
        /\ sessions[id].userId = userId
        /\ sessions[id].revokedAt = NoTime
        /\ \/ body.allDevices
           \/ body.refreshToken = NoRefreshToken
           \/ sessions[id].refreshTokenHash = HashRefreshToken(body.refreshToken)}

\* C16: a logout with allDevices or without a refresh token revokes every
\* unrevoked session of the caller; a logout with a refresh token and without
\* allDevices revokes the unrevoked session with that token if it is the
\* caller's; every other session, those of other users among them, stays as
\* it is.
C16_LogoutRevokesOwnSessions ==
    [][\A jwt \in Users, body \in LogoutBodies :
        (body.refreshToken # NoToken /\ Logout(jwt, body))
        => /\ DOMAIN sessions' = DOMAIN sessions
           /\ \A id \in DOMAIN sessions :
                IF id \in ToRevoke(jwt, body)
                THEN sessions'[id] = [sessions[id] EXCEPT !.revokedAt = clock]
                ELSE sessions'[id] = sessions[id]
           /\ \A id \in DOMAIN sessions :
                sessions[id].userId # jwt => sessions'[id] = sessions[id]
           /\ reply'.code = 200
           /\ UNCHANGED <<users, refreshes>>]_vars

\* C16 witness: after a logout with a refresh token the caller's session 1
\* is revoked, their other session is not, and another user's session is
\* not either
C16_Witness ==
    /\ reply = Reply("POST /auth/logout", 200, "Logged out", NoBody)
    /\ Len(sessions) = 3
    /\ sessions[1].revokedAt # NoTime
    /\ sessions[1].accepted = 0
    /\ \E mine, other \in 2..3 :
        /\ sessions[mine].userId = sessions[1].userId
        /\ sessions[mine].revokedAt = NoTime
        /\ sessions[other].userId # sessions[1].userId
        /\ sessions[other].revokedAt = NoTime

\* session id is neither revoked nor expired
Usable(id) ==
    /\ sessions[id].revokedAt = NoTime
    /\ sessions[id].expiresAt > clock

\* the sessions the refresh token was issued in
IssuedIn(refreshToken) ==
    {id \in DOMAIN sessions :
        sessions[id].refreshTokenHash = HashRefreshToken(refreshToken)}

\* C17: no step clears the revokedAt of a session or removes a session; the
\* lookup of a refresh accepts a session only if its revokedAt is null and
\* its expiresAt is in the future, and answers 401 and changes nothing when
\* the token's session is revoked or expired; a logout from all devices
\* leaves every session of the caller revoked, so that no refresh token
\* issued to them before it is accepted by a later refresh.
C17_RevokedNeverUsable ==
    [][/\ \A id \in DOMAIN sessions :
            sessions[id].revokedAt # NoTime
            => id \in DOMAIN sessions' /\ sessions'[id].revokedAt # NoTime
       /\ \A k \in 1..MaxRefreshes, body \in RefreshBodies :
            \/ refreshes[k] # NoRow
            \/ ~RefreshSchemaOk(body)
            \/ IF \E id \in IssuedIn(body.refreshToken) : Usable(id)
               THEN refreshes'[k] \in IssuedIn(body.refreshToken)
                    => Usable(refreshes'[k])
               ELSE /\ reply' = Reply("POST /auth/refresh", 401,
                                      "Invalid refresh token", NoBody)
                    /\ UNCHANGED <<sessions, refreshes>>
            \/ ~Refresh(k, body)
       /\ \A k \in 1..MaxRefreshes :
            \/ refreshes'[k] = refreshes[k]
            \/ refreshes'[k] = NoRow
            \/ Usable(refreshes'[k])
       /\ \A jwt \in Users, body \in LogoutBodies :
            \/ body.refreshToken = NoToken
            \/ ~(body.allDevices \/ body.refreshToken = NoRefreshToken)
            \/ \A id \in DOMAIN sessions' :
                    sessions'[id].userId = jwt => sessions'[id].revokedAt # NoTime
            \/ ~Logout(jwt, body)]_vars

\* C17 witness: both sessions of one user were revoked by a logout from all
\* devices before they expired, a later session is usable, and the refresh
\* served last, which carried one of the two revoked tokens, was answered 401
C17_Witness ==
    /\ reply = Reply("POST /auth/refresh", 401, "Invalid refresh token", NoBody)
    /\ Len(sessions) = 3
    /\ sessions[2].userId = sessions[1].userId
    /\ \A id \in 1..2 :
        /\ sessions[id].revokedAt # NoTime
        /\ sessions[id].accepted = 0
        /\ sessions[id].expiresAt > clock
    /\ Usable(3)

\* C18: of the refreshes that carry one refresh token at most one is
\* accepted, whatever their interleaving: no session is rotated into two new
\* sessions.
C18_OneRefreshPerToken ==
    \A id \in DOMAIN sessions : sessions[id].accepted <= 1
====
